---- MODULE Spec2Model ----
(***************************************************************************)
(* PlatePlanner hybrid recommendation pipeline                             *)
(*   Stage 1  RetrievalService.get_candidates                              *)
(*   Stage 2  OntologyService.filter_unsafe_recipes                        *)
(*   Stage 3  NutrientService.rank_by_nutrition                            *)
(*   Stage 4  RAGService.generate_explanation                              *)
(* sequenced by run_hybrid_pipeline.                                       *)
(*                                                                         *)
(* Conventions.  An optional value (a dict key that may be missing) is the *)
(* empty tuple when missing and a one-element tuple when present.  A       *)
(* Python string is a tuple of one-character strings.  Scores are integer  *)
(* multiples of 1/(2*CalorieScale), so that the penalty                    *)
(* 0.5 * min(d / 500.0, 1.0) is exactly Min(d, CalorieScale) units.        *)
(***************************************************************************)
EXTENDS Integers, Sequences, FiniteSets, TLC

VARIABLES
    pc,              \* position of the running operation
    indexLoaded,     \* RetrievalService: self.index is set
    hits,            \* the vector index's answer to the query, best first
    goals,           \* goals.get("target_calories"): Absent or Some(n)
    restrictions,    \* the request's restriction strings
    graph,           \* Neo4j: recipe id -> Absent (no Recipe node) or Some(linked names)
    graphIdKind,     \* type of the r.recipe_id property: "int" or "str"
    candidates,      \* input list of the filter / Stage 1 output
    safe_recipes,    \* output of filter_unsafe_recipes
    ranked_recipes,  \* output of rank_by_nutrition
    graphRaised,     \* execute_query was called and raised
    calls,           \* stages invoked so far, in order
    result,          \* what run_hybrid_pipeline returned
    modelLoaded,     \* RetrievalService: self.model is set
    response,        \* HTTP status sent by the /recommend/hybrid endpoint
    llm,             \* the LLMClient of the running generate() call
    procs,           \* the locals of each of two concurrent invocations
    heap,            \* the candidate dicts those invocations allocated
    db               \* the rows of the SQL session: goals, lists, plans

vars == <<pc, indexLoaded, hits, goals, restrictions, graph, graphIdKind,
          candidates, safe_recipes, ranked_recipes, graphRaised, calls, result,
          modelLoaded, response, llm, procs, heap, db, db>>

----------------------------------------------------------------------------
(* Bounds and input pools                                                  *)

MaxCands == 3

MaxRestrictions == 2

MaxHits == 2

MaxWide == 6

Absent == <<>>

Some(v) == <<v>>

Ids == {1, 2}

\* ingredient names as stored in the graph (mixed case)
Names == { <<"P", "b">>, <<"b", "p">>, <<"b">> }

\* restriction strings as typed by the user
Terms == { <<"p">>, <<"B", " ">>, <<"p", "B">>, <<" ">>, <<"b", "b">> }

Scores == {600, 900}

Min(a, b) == IF a <= b THEN a ELSE b

Abs(a) == IF a >= 0 THEN a ELSE 0 - a

SeqsUpTo(S, n) == UNION { [1..k -> S] : k \in 0..n }

Range(s) == { s[i] : i \in DOMAIN s }

----------------------------------------------------------------------------
(* Strings                                                                 *)

\* str.lower() / Cypher toLower() on one character
LowerChar(ch) ==
    CASE ch = "P" -> "p"
      [] ch = "B" -> "b"
      [] OTHER -> ch

Lower(s) == [i \in DOMAIN s |-> LowerChar(s[i])]

RECURSIVE LStrip(_)
LStrip(s) ==
    IF s # <<>> /\ Head(s) = " " THEN LStrip(Tail(s)) ELSE s

RECURSIVE RStrip(_)
RStrip(s) ==
    IF s # <<>> /\ s[Len(s)] = " " THEN RStrip(SubSeq(s, 1, Len(s) - 1)) ELSE s

\* str.strip()
Strip(s) == RStrip(LStrip(s))

\* Cypher `s CONTAINS t`
Contains(s, t) ==
    \E i \in 0..(Len(s) - Len(t)) : SubSeq(s, i + 1, i + Len(t)) = t

----------------------------------------------------------------------------
(* Candidate records (the dicts built by Stage 1 and decorated later)      *)

Cand(uid, rid, sem, cal) ==
    [uid |-> uid, recipe_id |-> rid, semantic_score |-> sem,
     calories_per_serving |-> cal, fitness_score |-> Absent,
     calorie_distance |-> Absent, explanation |-> Absent]

----------------------------------------------------------------------------
(* Stage 2: OntologyService.filter_unsafe_recipes                          *)

\* A recipe id value is tagged with its type: the integer n or the string
\* holding the decimal digits of n.
IntVal(n) == <<"int", n>>

StrVal(n) == <<"str", n>>

\* Cypher toInteger(), toString() and Python str() on such a value
toInteger(v) == <<"int", v[2]>>

toString(v) == <<"str", v[2]>>

PyStr(v) == <<"str", v[2]>>

HasId(c) == c.recipe_id # Absent

\* [c["recipe_id"] for c in candidates if "recipe_id" in c]
candidate_ids(cands) ==
    LET ids(c) == c.recipe_id[1]
        withId == SelectSeq(cands, HasId)
    IN  [i \in DOMAIN withId |-> ids(withId[i])]

\* [r.lower().strip() for r in restrictions]
restricted_terms(restr) == [i \in DOMAIN restr |-> Strip(Lower(restr[i]))]

\* collect(toLower(i.name)) over the node's HAS_INGREDIENT edges
Ingredients(g, n) == { Lower(name) : name \in g[n][1] }

\* a recipe is dropped only when one ingredient contains all the terms
NodeIsSafe_all_terms(g, n, terms) ==
    ~ \E ing \in Ingredients(g, n) :
        \A k \in DOMAIN terms : Contains(ing, terms[k])

\* WHERE NOT any(ing IN ingredients WHERE any(term IN $restricted_terms
\*                                            WHERE ing CONTAINS term))
NodeIsSafe(g, n, terms) ==
    ~ \E ing \in Ingredients(g, n) :
        \E k \in DOMAIN terms : Contains(ing, terms[k])

\* The Cypher query: the safe_id column of the rows it returns.
ExecuteQuery(g, kind, recipe_ids, terms) ==
    { <<kind, n>> : n \in
        { m \in Ids :
            /\ g[m] # Absent
            /\ \E k \in DOMAIN recipe_ids :
                  \/ <<kind, m>> = toInteger(recipe_ids[k])
                  \/ <<kind, m>> = toString(recipe_ids[k])
            /\ NodeIsSafe(g, m, terms) } }

\* safe_ids.add(str(safe_id)) for each row
safe_ids(rows) == { PyStr(v) : v \in rows }

\* the output is built from the returned rows, in id order, instead of from
\* the candidate list
RECURSIVE safe_candidates_by_row(_, _)
safe_candidates_by_row(cands, sids) ==
    IF sids = {} THEN <<>>
    ELSE LET least == CHOOSE v \in sids : \A w \in sids : v[2] <= w[2]
             hasIt(c) == HasId(c) /\ PyStr(c.recipe_id[1]) = least
         IN  SelectSeq(cands, hasIt)
               \o safe_candidates_by_row(cands, sids \ {least})

\* [c for c in candidates if "recipe_id" in c and str(c["recipe_id"]) in safe_ids]
safe_candidates(cands, sids) ==
    LET keep(c) == HasId(c) /\ PyStr(c.recipe_id[1]) \in sids
    IN  SelectSeq(cands, keep)

\* the except branch assumes safety (fails open)
filter_unsafe_recipes_fail_open(cands, restr, g, kind, raises) ==
    IF cands = <<>> THEN [ret |-> <<>>, raised |-> FALSE]
    ELSE IF restr = <<>> THEN [ret |-> cands, raised |-> FALSE]
    ELSE IF candidate_ids(cands) = <<>> THEN [ret |-> cands, raised |-> FALSE]
    ELSE IF raises THEN [ret |-> cands, raised |-> TRUE]
    ELSE [ret |-> safe_candidates(cands,
                     safe_ids(ExecuteQuery(g, kind, candidate_ids(cands),
                                           restricted_terms(restr)))),
          raised |-> FALSE]

\* the empty restriction list is not special-cased and the query result is
\* run with no terms at all
filter_unsafe_recipes_no_passthrough(cands, restr, g, kind, raises) ==
    IF cands = <<>> THEN [ret |-> <<>>, raised |-> FALSE]
    ELSE IF candidate_ids(cands) = <<>> THEN [ret |-> cands, raised |-> FALSE]
    ELSE IF raises THEN [ret |-> <<>>, raised |-> TRUE]
    ELSE [ret |-> safe_candidates(cands,
                     safe_ids(ExecuteQuery(g, kind, candidate_ids(cands),
                                           restricted_terms(restr)))),
          raised |-> FALSE]

\* raises: whether neo4j.execute_query raises if it is called.
\* ret: the returned list; raised: the except branch was taken.
filter_unsafe_recipes(cands, restr, g, kind, raises) ==
    IF cands = <<>> THEN [ret |-> <<>>, raised |-> FALSE]
    ELSE IF restr = <<>> THEN [ret |-> cands, raised |-> FALSE]
    ELSE IF candidate_ids(cands) = <<>> THEN [ret |-> cands, raised |-> FALSE]
    ELSE IF raises THEN [ret |-> <<>>, raised |-> TRUE]
    ELSE [ret |-> safe_candidates(cands,
                     safe_ids(ExecuteQuery(g, kind, candidate_ids(cands),
                                           restricted_terms(restr)))),
          raised |-> FALSE]

----------------------------------------------------------------------------
(* Inputs of the filter taken on its own                                   *)

\* every candidate list of at most MaxCands dicts, with or without recipe_id
FilterCandidateLists ==
    { [i \in DOMAIN ids |-> Cand(i, ids[i], Some(0), Absent)] :
        ids \in SeqsUpTo({Absent} \cup { Some(IntVal(n)) : n \in Ids },
                         MaxCands) }

RestrictionLists == SeqsUpTo(Terms, MaxRestrictions)

Graphs == [Ids -> {Absent} \cup { Some(S) : S \in SUBSET Names }]

IdKinds == {"int", "str"}

FilterInit ==
    /\ pc = "filter_call"
    /\ indexLoaded = TRUE
    /\ hits = <<>>
    /\ goals = Absent
    /\ restrictions \in RestrictionLists
    /\ graph \in Graphs
    /\ graphIdKind \in IdKinds
    /\ candidates \in FilterCandidateLists
    /\ safe_recipes = <<>>
    /\ ranked_recipes = <<>>
    /\ graphRaised = FALSE
    /\ calls = <<>>
    /\ result = Absent
    /\ modelLoaded = TRUE
    /\ response = Absent
    /\ llm = Absent
    /\ procs = <<>>
    /\ heap = <<>>
    /\ db = <<>>

\* one call of ontology_service.filter_unsafe_recipes(candidates, restrictions)
FilterCall ==
    /\ pc = "filter_call"
    /\ \E raises \in BOOLEAN :
         LET r == filter_unsafe_recipes(candidates, restrictions, graph,
                                        graphIdKind, raises)
         IN  /\ safe_recipes' = r.ret
             /\ graphRaised' = r.raised
    /\ pc' = "filter_done"
    /\ UNCHANGED <<modelLoaded, response, llm, procs, heap, db,
                   indexLoaded, hits, goals, restrictions, graph, graphIdKind,
                   candidates, ranked_recipes, calls, result>>

FilterNext == FilterCall

FilterSpec == FilterInit /\ [][FilterNext]_vars

----------------------------------------------------------------------------
(* Properties of filter_unsafe_recipes (FilterSpec)                        *)

FilterDone == pc = "filter_done"

Kept(c) == \E j \in DOMAIN safe_recipes : safe_recipes[j] = c

\* names linked to the candidate's recipe in the graph (none when the
\* candidate has no id or the graph has no such recipe)
LinkedNames(c) ==
    IF HasId(c) /\ graph[c.recipe_id[1][2]] # Absent
    THEN graph[c.recipe_id[1][2]][1]
    ELSE {}

\* C2: when the graph query is issued and raises, the filter returns the
\* empty list, whatever the candidates and the (non-empty) restrictions.
C2_FailClosed == (FilterDone /\ graphRaised) => safe_recipes = <<>>

C2_Witness ==
    /\ FilterDone
    /\ graphRaised
    /\ Len(candidates) >= 2
    /\ restrictions # <<>>
    /\ safe_recipes = <<>>

\* C3 as stated: with a non-empty restriction list (and a query that did
\* not fail) a candidate is kept iff no name linked to its recipe contains
\* a restricted term, compared case-insensitively.
C3_Original ==
    (FilterDone /\ restrictions # <<>> /\ ~graphRaised) =>
        \A i \in DOMAIN candidates :
            Kept(candidates[i]) <=>
                ~ \E name \in LinkedNames(candidates[i]) :
                    \E k \in DOMAIN restrictions :
                        Contains(Lower(name), Lower(restrictions[k]))

\* C3 amended: with a non-empty restriction list and a query that did not
\* fail, a candidate that carries a recipe_id is kept iff the graph has a
\* Recipe node with that id and no ingredient name linked to it contains,
\* case-insensitively, a restricted term with its surrounding whitespace
\* removed; a graph recipe with zero linked ingredients is kept.
C3_KeptIffVerifiedSafe ==
    (FilterDone /\ restrictions # <<>> /\ ~graphRaised) =>
        \A i \in DOMAIN candidates :
            HasId(candidates[i]) =>
                ( Kept(candidates[i]) <=>
                    /\ graph[candidates[i].recipe_id[1][2]] # Absent
                    /\ ~ \E name \in LinkedNames(candidates[i]) :
                          \E k \in DOMAIN restrictions :
                              Contains(Lower(name),
                                       Strip(Lower(restrictions[k]))) )

C3_Witness ==
    /\ FilterDone
    /\ restrictions # <<>>
    /\ ~graphRaised
    /\ \E i, j \in DOMAIN candidates :
          /\ Kept(candidates[i])
          /\ LinkedNames(candidates[i]) # {}
          /\ HasId(candidates[j])
          /\ ~Kept(candidates[j])
          /\ LinkedNames(candidates[j]) # {}

\* C5: the output is a sub-list of the input (every returned dict is an
\* input dict, none twice), and it is the input itself when there are no
\* restrictions.
C5_SubsetAndPassThrough ==
    FilterDone =>
        /\ \A j \in DOMAIN safe_recipes :
              \E i \in DOMAIN candidates : candidates[i] = safe_recipes[j]
        /\ \A j, k \in DOMAIN safe_recipes :
              j # k => safe_recipes[j].uid # safe_recipes[k].uid
        /\ restrictions = <<>> => safe_recipes = candidates

C5_Witness ==
    /\ FilterDone
    /\ restrictions # <<>>
    /\ ~graphRaised
    /\ safe_recipes # <<>>
    /\ Len(safe_recipes) < Len(candidates)

C5_WitnessPassThrough ==
    /\ FilterDone
    /\ restrictions = <<>>
    /\ Len(candidates) >= 2
    /\ safe_recipes = candidates

\* C6: the survivors appear in the output in their input order (uid is the
\* position of the dict in the input list).
C6_OrderPreserved ==
    FilterDone =>
        \A j, k \in DOMAIN safe_recipes :
            j < k => safe_recipes[j].uid < safe_recipes[k].uid

C6_Witness ==
    /\ FilterDone
    /\ restrictions # <<>>
    /\ Len(safe_recipes) >= 2
    /\ Len(safe_recipes) < Len(candidates)
    /\ safe_recipes[1].recipe_id[1][2] > safe_recipes[2].recipe_id[1][2]

----------------------------------------------------------------------------
(* Stage 3: NutrientService.rank_by_nutrition                              *)

DefaultCalories == 600

CalorieScale == 500

\* Python truthiness of an optional number: None (a missing key read with
\* .get) and 0 are both falsy
Truthy(opt) == opt # Absent /\ opt[1] # 0

\* recipe.get("calories_per_serving") or 600.0
recipe_cals(c) ==
    IF Truthy(c.calories_per_serving) THEN c.calories_per_serving[1]
    ELSE DefaultCalories

\* abs(recipe_cals - target_calories)
calorie_distance(c, target) == Abs(recipe_cals(c) - target)

\* norm_cal_penalty * 0.5 = min(calorie_distance / 500.0, 1.0) * 0.5,
\* in units of 1/(2*CalorieScale)
half_norm_cal_penalty(c, target) == Min(calorie_distance(c, target), CalorieScale)

\* recipe.get("semantic_score", 0.0)
sem_score(c) == IF c.semantic_score = Absent THEN 0 ELSE c.semantic_score[1]

\* sem_score - (norm_cal_penalty * 0.5)
fitness_score(c, target) == sem_score(c) - half_norm_cal_penalty(c, target)

\* the loop body: the dict with fitness_score and calorie_distance attached
Scored(c, target) ==
    [c EXCEPT !.fitness_score = Some(fitness_score(c, target)),
              !.calorie_distance = Some(calorie_distance(c, target))]

\* list.sort(key=fitness_score, reverse=True): stable, equal keys keep
\* their order.  InsertDesc puts x behind every element whose key is >= x's.
RECURSIVE InsertDesc(_, _)
InsertDesc(x, s) ==
    IF s = <<>> THEN <<x>>
    ELSE IF Head(s).fitness_score[1] >= x.fitness_score[1]
         THEN <<Head(s)>> \o InsertDesc(x, Tail(s))
         ELSE <<x>> \o s

RECURSIVE SortDescFrom(_, _)
SortDescFrom(s, acc) ==
    IF s = <<>> THEN acc
    ELSE SortDescFrom(Tail(s), InsertDesc(Head(s), acc))

SortDesc(s) == SortDescFrom(s, <<>>)

\* the scoring branch was taken for a non-empty list
ScoringBranch(safe, target) == safe # <<>> /\ Truthy(target)

\* the list returned by rank_by_nutrition
rank_by_nutrition(safe, target) ==
    IF safe = <<>> THEN <<>>
    ELSE IF ~Truthy(target) THEN safe
    ELSE SortDesc([i \in DOMAIN safe |-> Scored(safe[i], target[1])])

\* the dicts of the input list after the call (they are scored in place)
AfterRank(lst, safe, target) ==
    IF ScoringBranch(safe, target)
    THEN [i \in DOMAIN lst |->
            IF \E j \in DOMAIN safe : safe[j].uid = lst[i].uid
            THEN Scored(lst[i], target[1]) ELSE lst[i]]
    ELSE lst

----------------------------------------------------------------------------
(* Inputs of the scorer taken on its own                                   *)

Calories == {0, 100, 500, 900}

Targets == {0, 500, 700}

Optional(S) == {Absent} \cup { Some(v) : v \in S }

RankCandidateLists ==
    { [i \in DOMAIN fs |-> Cand(i, Some(IntVal(1)), fs[i][1], fs[i][2])] :
        fs \in SeqsUpTo(Optional(Scores) \X Optional(Calories), MaxCands) }

RankInit ==
    /\ pc = "rank_call"
    /\ indexLoaded = TRUE
    /\ hits = <<>>
    /\ goals \in Optional(Targets)
    /\ restrictions = <<>>
    /\ graph = [n \in Ids |-> Absent]
    /\ graphIdKind = "int"
    /\ candidates = <<>>
    /\ safe_recipes \in RankCandidateLists
    /\ ranked_recipes = <<>>
    /\ graphRaised = FALSE
    /\ calls = <<>>
    /\ result = Absent
    /\ modelLoaded = TRUE
    /\ response = Absent
    /\ llm = Absent
    /\ procs = <<>>
    /\ heap = <<>>
    /\ db = <<>>

\* one call of nutrient_service.rank_by_nutrition(safe_recipes, goals)
RankCall ==
    /\ pc = "rank_call"
    /\ ranked_recipes' = rank_by_nutrition(safe_recipes, goals)
    /\ safe_recipes' = AfterRank(safe_recipes, safe_recipes, goals)
    /\ pc' = "rank_done"
    /\ UNCHANGED <<modelLoaded, response, llm, procs, heap, db,
                   indexLoaded, hits, goals, restrictions, graph, graphIdKind,
                   candidates, graphRaised, calls, result>>

RankNext == RankCall

RankSpec == RankInit /\ [][RankNext]_vars

----------------------------------------------------------------------------
(* Properties of rank_by_nutrition (RankSpec)                              *)

RankDone == pc = "rank_done"

\* the output holds exactly the input dicts, each once
SameDicts(out, inp) ==
    /\ Len(out) = Len(inp)
    /\ \A i \in DOMAIN inp : \E j \in DOMAIN out : out[j].uid = inp[i].uid

\* C7: whenever target_calories is present in the goals, the result is the
\* input stably sorted by descending fitness score: every input dict is
\* returned once, carries a fitness score, scores never increase along the
\* list, and equal scores keep their input order (uid is the input position).
C7_Original ==
    (RankDone /\ goals # Absent) =>
        /\ SameDicts(ranked_recipes, safe_recipes)
        /\ \A j \in DOMAIN ranked_recipes :
              ranked_recipes[j].fitness_score # Absent
        /\ \A j, k \in DOMAIN ranked_recipes :
              j < k =>
                 \/ ranked_recipes[j].fitness_score[1]
                      > ranked_recipes[k].fitness_score[1]
                 \/ /\ ranked_recipes[j].fitness_score[1]
                         = ranked_recipes[k].fitness_score[1]
                    /\ ranked_recipes[j].uid < ranked_recipes[k].uid

\* C8: with target_calories absent the input list is returned unchanged,
\* and with target_calories present every returned dict has been scored.
C8_Original ==
    RankDone =>
        /\ goals = Absent => ranked_recipes = safe_recipes
        /\ goals # Absent =>
              \A j \in DOMAIN ranked_recipes :
                  ranked_recipes[j].fitness_score # Absent

\* the calorie value the claim prescribes: the dict's own value whenever
\* the key is present, the default only when it is missing
ClaimedCalories(c) ==
    IF c.calories_per_serving # Absent THEN c.calories_per_serving[1]
    ELSE DefaultCalories

\* C9: every scored dict has calorie_distance = |cal - target| and
\* fitness = semantic_score - 0.5 * min(calorie_distance / 500, 1), with cal
\* the dict's calorie value if present and 600 only if it is missing.
C9_Original ==
    RankDone =>
        \A j \in DOMAIN ranked_recipes :
            ranked_recipes[j].fitness_score # Absent =>
                LET c == ranked_recipes[j]
                    dist == Abs(ClaimedCalories(c) - goals[1])
                IN  /\ c.calorie_distance = Some(dist)
                    /\ c.fitness_score
                         = Some(sem_score(c) - Min(dist, CalorieScale))

\* C10: of two scored dicts with equal semantic_score whose calories
\* c1 < c2 lie on the same side of the target, the one closer to the target
\* has a fitness score >= the other's.
C10_Original ==
    RankDone =>
        \A j, k \in DOMAIN ranked_recipes :
            LET a == ranked_recipes[j]
                b == ranked_recipes[k]
                t == goals[1]
            IN  ( /\ a.fitness_score # Absent
                  /\ b.fitness_score # Absent
                  /\ a.calories_per_serving # Absent
                  /\ b.calories_per_serving # Absent
                  /\ sem_score(a) = sem_score(b)
                  /\ a.calories_per_serving[1] < b.calories_per_serving[1]
                  /\ \/ b.calories_per_serving[1] <= t
                     \/ a.calories_per_serving[1] >= t )
                =>
                IF b.calories_per_serving[1] <= t
                THEN b.fitness_score[1] >= a.fitness_score[1]
                ELSE a.fitness_score[1] >= b.fitness_score[1]

----------------------------------------------------------------------------
(* Stage 1: RetrievalService.get_candidates                                *)

\* get_candidates without the `if not self.index or not self.model` return
get_candidates_unguarded(loaded, found, sqlError) ==
    IF found = <<>> THEN <<>>
    ELSE IF sqlError THEN <<>>
    ELSE LET hasRow(h) == h.hasRow
             kept == SelectSeq(found, hasRow)
         IN  [i \in DOMAIN kept |->
                Cand(kept[i].id, Some(IntVal(kept[i].id)),
                     Some(kept[i].score), Absent)]

\* A hit is what index.search returned for one vector, joined with whether
\* recipes.db has a row for it: [id, score, hasRow].
\* sqlError: whether the SQLite lookup raises.
get_candidates(loaded, found, sqlError) ==
    IF ~loaded THEN <<>>
    ELSE IF found = <<>> THEN <<>>
    ELSE IF sqlError THEN <<>>
    ELSE LET hasRow(h) == h.hasRow
             kept == SelectSeq(found, hasRow)
         IN  [i \in DOMAIN kept |->
                Cand(kept[i].id, Some(IntVal(kept[i].id)),
                     Some(kept[i].score), Absent)]

----------------------------------------------------------------------------
(* Stage 4: RAGService.generate_explanation                                *)

\* what LLMClient.generate can return: the model's text, the fixed text
\* used when no client could be initialised, or "AI response unavailable"
Explanations == {"llm_text", "no_backend_configured", "unavailable"}

----------------------------------------------------------------------------
(* run_hybrid_pipeline                                                     *)

TopN == 5

NoRecipesFound == "No recipes found for the query."

NoneSafe == "No recipes passed the strict dietary constraints."

RankFailed == "Failed to rank recipes by nutrition."

ErrorResult(msg) ==
    Some([status |-> "error", message |-> msg,
          top_recommendations |-> <<>>, primary_explanation |-> Absent])

\* the whole ranked list is returned instead of ranked_recipes[:5]
SuccessResult_untruncated(ranked, explanation) ==
    Some([status |-> "success", message |-> "",
          top_recommendations |-> ranked,
          primary_explanation |-> Some(explanation)])

SuccessResult(ranked, explanation) ==
    Some([status |-> "success", message |-> "",
          top_recommendations |-> SubSeq(ranked, 1, Min(TopN, Len(ranked))),
          primary_explanation |-> Some(explanation)])

\* best_recipe["explanation"] = explanation on every element of the list
WithExplanation_on_all(lst, best, explanation) ==
    [i \in DOMAIN lst |-> [lst[i] EXCEPT !.explanation = Some(explanation)]]

\* best_recipe["explanation"] = explanation, seen through every list that
\* holds the dict
WithExplanation(lst, best, explanation) ==
    [i \in DOMAIN lst |->
        IF lst[i].uid = best.uid
        THEN [lst[i] EXCEPT !.explanation = Some(explanation)]
        ELSE lst[i]]

\* the index answers with distinct ids, best score first
HitLists ==
    { h \in SeqsUpTo([id : Ids, score : Scores, hasRow : BOOLEAN], MaxHits) :
        /\ \A i, j \in DOMAIN h : i < j => h[i].id # h[j].id
        /\ \A i, j \in DOMAIN h : i < j => h[i].score >= h[j].score }

PipelineTerms == { <<"p">>, <<"b", "b">> }

PipelineRestrictionLists == SeqsUpTo(PipelineTerms, MaxRestrictions)

\* graphs whose recipes have at most one linked ingredient
PipelineGraphs ==
    [Ids -> {Absent, Some({})} \cup { Some({n}) : n \in Names }]

Init ==
    /\ pc = "start"
    /\ modelLoaded \in BOOLEAN
    /\ indexLoaded \in {FALSE, modelLoaded}
    /\ hits \in HitLists
    /\ goals \in Optional(Targets)
    /\ restrictions \in PipelineRestrictionLists
    /\ graph \in PipelineGraphs
    /\ graphIdKind \in IdKinds
    /\ candidates = <<>>
    /\ safe_recipes = <<>>
    /\ ranked_recipes = <<>>
    /\ graphRaised = FALSE
    /\ calls = <<>>
    /\ result = Absent
    /\ response = Absent
    /\ llm = Absent
    /\ procs = <<>>
    /\ heap = <<>>
    /\ db = <<>>

\* Stage 1 without the `if not candidates` return
Stage1_no_empty_check ==
    /\ pc = "start"
    /\ calls' = Append(calls, "retrieval")
    /\ \E sqlError \in BOOLEAN :
          candidates' = get_candidates(indexLoaded /\ modelLoaded, hits, sqlError)
    /\ pc' = "stage2"
    /\ UNCHANGED <<modelLoaded, response, llm, procs, heap, db,
                   indexLoaded, hits, goals, restrictions, graph, graphIdKind,
                   safe_recipes, ranked_recipes, graphRaised, result>>

\* candidates = retrieval_service.get_candidates(query, k=100)
Stage1 ==
    /\ pc = "start"
    /\ calls' = Append(calls, "retrieval")
    /\ \E sqlError \in BOOLEAN :
          candidates' = get_candidates(indexLoaded /\ modelLoaded, hits, sqlError)
    /\ IF candidates' = <<>>
       THEN /\ result' = ErrorResult(NoRecipesFound)
            /\ pc' = "done"
       ELSE /\ result' = result
            /\ pc' = "stage2"
    /\ UNCHANGED <<modelLoaded, response, llm, procs, heap, db,
                   indexLoaded, hits, goals, restrictions, graph, graphIdKind,
                   safe_recipes, ranked_recipes, graphRaised>>

\* Stage 2 without the `if not safe_recipes` return
Stage2_no_empty_check ==
    /\ pc = "stage2"
    /\ calls' = Append(calls, "ontology")
    /\ \E raises \in BOOLEAN :
         LET r == filter_unsafe_recipes(candidates, restrictions, graph,
                                        graphIdKind, raises)
         IN  /\ safe_recipes' = r.ret
             /\ graphRaised' = r.raised
    /\ pc' = "stage3"
    /\ UNCHANGED <<modelLoaded, response, llm, procs, heap, db,
                   indexLoaded, hits, goals, restrictions, graph, graphIdKind,
                   candidates, ranked_recipes, result>>

\* safe_recipes = ontology_service.filter_unsafe_recipes(candidates, restrictions)
Stage2 ==
    /\ pc = "stage2"
    /\ calls' = Append(calls, "ontology")
    /\ \E raises \in BOOLEAN :
         LET r == filter_unsafe_recipes(candidates, restrictions, graph,
                                        graphIdKind, raises)
         IN  /\ safe_recipes' = r.ret
             /\ graphRaised' = r.raised
    /\ IF safe_recipes' = <<>>
       THEN /\ result' = ErrorResult(NoneSafe)
            /\ pc' = "done"
       ELSE /\ result' = result
            /\ pc' = "stage3"
    /\ UNCHANGED <<modelLoaded, response, llm, procs, heap, db,
                   indexLoaded, hits, goals, restrictions, graph, graphIdKind,
                   candidates, ranked_recipes>>

\* ranked_recipes = nutrient_service.rank_by_nutrition(safe_recipes, goals)
Stage3 ==
    /\ pc = "stage3"
    /\ calls' = Append(calls, "nutrient")
    /\ ranked_recipes' = rank_by_nutrition(safe_recipes, goals)
    /\ safe_recipes' = AfterRank(safe_recipes, safe_recipes, goals)
    /\ candidates' = AfterRank(candidates, safe_recipes, goals)
    /\ IF ranked_recipes' = <<>>
       THEN /\ result' = ErrorResult(RankFailed)
            /\ pc' = "done"
       ELSE /\ result' = result
            /\ pc' = "stage4"
    /\ UNCHANGED <<modelLoaded, response, llm, procs, heap, db,
                   indexLoaded, hits, goals, restrictions, graph, graphIdKind,
                   graphRaised>>

\* lines 52-59: attach the explanation to best_recipe and build the result
ReturnSuccess(explanation) ==
    LET best_recipe == ranked_recipes[1]
    IN  /\ ranked_recipes' =
               WithExplanation(ranked_recipes, best_recipe, explanation)
        /\ safe_recipes' =
               WithExplanation(safe_recipes, best_recipe, explanation)
        /\ candidates' =
               WithExplanation(candidates, best_recipe, explanation)
        /\ result' = SuccessResult(ranked_recipes', explanation)

\* Stage 4 that asks again while the explanation is the "unavailable" text
Stage4_retry ==
    /\ pc = "stage4"
    /\ calls' = Append(calls, "explanation")
    /\ \E explanation \in Explanations :
         /\ ReturnSuccess(explanation)
         /\ pc' = IF explanation = "unavailable" /\ Len(calls) < 5
                  THEN "stage4" ELSE "done"
    /\ UNCHANGED <<modelLoaded, response, llm, procs, heap, db,
                   indexLoaded, hits, goals, restrictions, graph, graphIdKind,
                   graphRaised>>

\* explanation = await rag_service.generate_explanation(best_recipe, user_context)
\* with the call taken as one step: it returns one of Explanations
Stage4 ==
    /\ pc = "stage4"
    /\ calls' = Append(calls, "explanation")
    /\ \E explanation \in Explanations : ReturnSuccess(explanation)
    /\ pc' = "done"
    /\ UNCHANGED <<modelLoaded, response, llm, procs, heap, db,
                   indexLoaded, hits, goals, restrictions, graph, graphIdKind,
                   graphRaised>>

----------------------------------------------------------------------------
(* POST /recommend/hybrid: hybrid_recommendation_endpoint                  *)

HTTP_200_OK == 200

HTTP_404_NOT_FOUND == 404

HTTP_500_INTERNAL_SERVER_ERROR == 500

\* classes that `except Exception` catches; fastapi.HTTPException is one
ExceptionClasses == {"HTTPException", "Exception"}

\* the endpoint with the 404 raised outside the try block
hybrid_recommendation_endpoint_404_outside_try(res) ==
    IF res[1].status = "error" THEN HTTP_404_NOT_FOUND ELSE HTTP_200_OK

\* the status of the response for a pipeline that returned res: the try
\* body raises HTTPException(404) or returns, and the except clause turns
\* every caught exception into a 500
hybrid_recommendation_endpoint(res) ==
    LET body == IF res[1].status = "error"
                THEN [raises |-> "HTTPException", status |-> HTTP_404_NOT_FOUND]
                ELSE [raises |-> "nothing", status |-> HTTP_200_OK]
    IN  IF body.raises \in ExceptionClasses
        THEN HTTP_500_INTERNAL_SERVER_ERROR
        ELSE body.status

\* the endpoint answers once run_hybrid_pipeline has returned
Respond ==
    /\ pc = "done"
    /\ response = Absent
    /\ response' = Some(hybrid_recommendation_endpoint(result))
    /\ UNCHANGED <<modelLoaded, llm, procs, heap, db, pc,
                   indexLoaded, hits, goals, restrictions, graph, graphIdKind,
                   candidates, safe_recipes, ranked_recipes, graphRaised,
                   calls, result>>

Next == Stage1 \/ Stage2 \/ Stage3 \/ Stage4 \/ Respond

Spec == Init /\ [][Next]_vars

----------------------------------------------------------------------------
(* Properties of run_hybrid_pipeline (Spec)                                *)

\* C1: once Retrieval has returned no candidates the invocation is over
\* with the "No recipes found" error, and Retrieval is the only stage that
\* was ever invoked.
C1_EmptyRetrievalStops ==
    (pc # "start" /\ candidates = <<>>) =>
        /\ pc = "done"
        /\ result = ErrorResult(NoRecipesFound)
        /\ calls = <<"retrieval">>

C1_Witness ==
    /\ pc = "done"
    /\ candidates = <<>>
    /\ indexLoaded
    /\ hits # <<>>
    /\ result = ErrorResult(NoRecipesFound)

\* C4: once the Ontology Filter has returned the empty list for a non-empty
\* candidate list the invocation is over with the "No recipes passed"
\* error, and neither the Nutrient Scorer nor the Explanation Generator was
\* invoked.
C4_NoneSafeStops ==
    (pc \notin {"start", "stage2"} /\ candidates # <<>> /\ safe_recipes = <<>>) =>
        /\ pc = "done"
        /\ result = ErrorResult(NoneSafe)
        /\ calls = <<"retrieval", "ontology">>

C4_Witness ==
    /\ pc = "done"
    /\ Len(candidates) >= 2
    /\ safe_recipes = <<>>
    /\ ~graphRaised
    /\ result = ErrorResult(NoneSafe)

C4_WitnessGraphDown ==
    /\ pc = "done"
    /\ candidates # <<>>
    /\ graphRaised
    /\ result = ErrorResult(NoneSafe)

\* C12: the stages are invoked in the order Retrieval, Ontology Filter,
\* Nutrient Scorer, Explanation Generator, each at most once, and a stage
\* has been invoked only if the stage before it returned a non-empty list.
StageOrder == <<"retrieval", "ontology", "nutrient", "explanation">>

C12_StagesInOrder ==
    /\ Len(calls) <= Len(StageOrder)
    /\ \A i \in DOMAIN calls : calls[i] = StageOrder[i]
    /\ Len(calls) >= 2 => candidates # <<>>
    /\ Len(calls) >= 3 => safe_recipes # <<>>
    /\ Len(calls) >= 4 => ranked_recipes # <<>>

C12_Witness ==
    /\ pc = "done"
    /\ calls = StageOrder
    /\ result # Absent
    /\ result[1].status = "success"

\* C17: the endpoint answers 404 for every pipeline error result, and 200
\* for a success result (the modelled pipeline raises nothing, so no
\* response is a 500).
C17_Original ==
    response # Absent =>
        /\ result[1].status = "error" => response = Some(HTTP_404_NOT_FOUND)
        /\ result[1].status = "success" => response = Some(HTTP_200_OK)

\* C18: the step that ends Stage 4 returns the scorer's list with the
\* explanation attached to its first dict and to nothing else:
\* top_recommendations[1] is ranked_recipes[1] with only its explanation
\* field set to primary_explanation, and every other returned dict is
\* exactly the scorer's.
C18_OnlyTopAugmented ==
    [][ (pc = "stage4" /\ pc' = "done") =>
          /\ result'[1].status = "success"
          /\ result'[1].primary_explanation # Absent
          /\ \A i \in DOMAIN result'[1].top_recommendations :
                result'[1].top_recommendations[i] =
                    IF i = 1
                    THEN [ranked_recipes[1] EXCEPT
                            !.explanation = result'[1].primary_explanation]
                    ELSE ranked_recipes[i] ]_vars

C18_Witness ==
    /\ pc = "done"
    /\ result # Absent
    /\ result[1].status = "success"
    /\ Len(result[1].top_recommendations) >= 2
    /\ result[1].top_recommendations[1].explanation
         = result[1].primary_explanation
    /\ result[1].top_recommendations[2].explanation = Absent
    /\ result[1].top_recommendations[2].fitness_score # Absent

\* C19: when the index or the model did not load, get_candidates returns
\* the empty list whatever the query would have matched, and the
\* invocation ends with the "No recipes found" error.
C19_NotLoadedGivesNothing ==
    ((~indexLoaded \/ ~modelLoaded) /\ pc # "start") =>
        /\ candidates = <<>>
        /\ result = ErrorResult(NoRecipesFound)

C19_Witness ==
    /\ pc = "done"
    /\ modelLoaded
    /\ ~indexLoaded
    /\ hits # <<>>
    /\ \A i \in DOMAIN hits : hits[i].hasRow
    /\ candidates = <<>>

----------------------------------------------------------------------------
(* The pipeline on result lists longer than TopN (WideSpec)                *)

\* the index answers with ids 1..n, best score first
WideHitLists ==
    UNION { { [i \in 1..n |-> [id |-> i, score |-> sc[i], hasRow |-> rows[i]]] :
                sc \in { f \in [1..n -> Scores] :
                           \A i, j \in 1..n : i < j => f[i] >= f[j] },
                rows \in [1..n -> BOOLEAN] } : n \in 0..MaxWide }

WideInit ==
    /\ pc = "start"
    /\ modelLoaded = TRUE
    /\ indexLoaded = TRUE
    /\ hits \in WideHitLists
    /\ goals \in Optional(Targets)
    /\ restrictions = <<>>
    /\ graph = [n \in Ids |-> Some({})]
    /\ graphIdKind = "int"
    /\ candidates = <<>>
    /\ safe_recipes = <<>>
    /\ ranked_recipes = <<>>
    /\ graphRaised = FALSE
    /\ calls = <<>>
    /\ result = Absent
    /\ response = Absent
    /\ llm = Absent
    /\ procs = <<>>
    /\ heap = <<>>
    /\ db = <<>>

WideSpec == WideInit /\ [][Next]_vars

\* C11: top_recommendations of a success result is the first min(5, n)
\* dicts of the scorer's list, in order; with no goal and no restriction
\* these are the first dicts of Retrieval's list.
C11_TopFive ==
    (pc = "done" /\ result[1].status = "success") =>
        LET top == result[1].top_recommendations
        IN  /\ Len(top) = Min(TopN, Len(ranked_recipes))
            /\ \A i \in DOMAIN top : top[i] = ranked_recipes[i]
            /\ (goals = Absent /\ restrictions = <<>>) =>
                  \A i \in DOMAIN top : top[i].uid = candidates[i].uid

C11_Witness ==
    /\ pc = "done"
    /\ result[1].status = "success"
    /\ Len(ranked_recipes) > TopN
    /\ Len(result[1].top_recommendations) = TopN
    /\ goals = Absent
    /\ restrictions = <<>>

----------------------------------------------------------------------------
(* Stage 4 step by step: RAGService.generate_explanation -> LLMClient      *)

MAX_RETRIES == 2

RETRY_BASE_DELAY == 5

GOOGLE_MODEL_FALLBACKS ==
    <<"gemini-2.5-flash", "GOOGLE_MODEL", "gemini-2.0-flash-lite">>

\* LLM_PROVIDER: any string can be configured
Providers == {"openai", "google", "ollama", "other"}

\* what one backend request can do
Outcomes == {"ok", "rate_limit", "error"}

RECURSIVE Pow2(_)
Pow2(n) == IF n = 0 THEN 1 ELSE 2 * Pow2(n - 1)

\* LLMClient(provider): canInit says whether the provider's package can be
\* imported and its client constructed
NewLLMClient(provider, canInit) ==
    Some([provider |-> provider, canInit |-> canInit, initialized |-> FALSE,
          model |-> 1, attempt |-> 0, log |-> <<>>, text |-> Absent])

\* _init_client: only the three known providers have a branch
InitClient(c) ==
    [c EXCEPT !.initialized =
        c.provider \in {"openai", "google", "ollama"} /\ c.canInit]

\* one entry of the request log
LogEntry(c, outcome, delay) ==
    [model |-> c.model, attempt |-> c.attempt, outcome |-> outcome,
     delay |-> delay]

\* for attempt in range(self.MAX_RETRIES), one attempt too many
LastAttempt_one_more(attempt) == attempt >= MAX_RETRIES

\* for attempt in range(self.MAX_RETRIES): this was the last one
LastAttempt(attempt) == attempt + 1 >= MAX_RETRIES

\* the client after leaving the inner loop for the current model: the next
\* model is tried, or last_error is raised and caught by generate
NextModel(c) ==
    IF c.model < Len(GOOGLE_MODEL_FALLBACKS)
    THEN [c EXCEPT !.model = c.model + 1, !.attempt = 0]
    ELSE [c EXCEPT !.text = Some("unavailable")]

\* a non-rate-limit error is retried like a rate limit, without the sleep
AfterError_retry(c) ==
    IF LastAttempt(c.attempt) THEN NextModel(c)
    ELSE [c EXCEPT !.attempt = c.attempt + 1]

\* else: break  -- non-retryable error, try next model
AfterError(c) == NextModel(c)

\* 429 / quota: sleep RETRY_BASE_DELAY * 2 ** attempt, then the next attempt
AfterRateLimit(c) ==
    IF LastAttempt(c.attempt) THEN NextModel(c)
    ELSE [c EXCEPT !.attempt = c.attempt + 1]

\* one pass through the try block of _google_generate
google_attempt(c, outcome) ==
    CASE outcome = "ok" ->
            [c EXCEPT !.log = Append(c.log, LogEntry(c, outcome, Absent)),
                      !.text = Some("llm_text")]
      [] outcome = "rate_limit" ->
            [AfterRateLimit(c) EXCEPT
                !.log = Append(c.log,
                    LogEntry(c, outcome,
                             Some(RETRY_BASE_DELAY * Pow2(c.attempt))))]
      [] OTHER ->
            [AfterError(c) EXCEPT
                !.log = Append(c.log, LogEntry(c, outcome, Absent))]

\* _openai_generate / _ollama_generate inside generate's try block: one
\* request, any exception becomes the "AI response unavailable" text
single_request(c, outcome) ==
    [c EXCEPT !.log = Append(c.log, LogEntry(c, outcome, Absent)),
              !.text = IF outcome = "ok" THEN Some("llm_text")
                       ELSE Some("unavailable")]

\* ranked lists Stage 4 can be entered with
ExplainRankedLists ==
    { get_candidates(TRUE, h, FALSE) :
        h \in { g \in HitLists : g # <<>> /\ \A i \in DOMAIN g : g[i].hasRow } }

ExplainInit ==
    /\ pc = "stage4"
    /\ modelLoaded = TRUE
    /\ indexLoaded = TRUE
    /\ hits = <<>>
    /\ goals = Absent
    /\ restrictions = <<>>
    /\ graph = [n \in Ids |-> Some({})]
    /\ graphIdKind = "int"
    /\ ranked_recipes \in ExplainRankedLists
    /\ candidates = ranked_recipes
    /\ safe_recipes = ranked_recipes
    /\ graphRaised = FALSE
    /\ calls = <<"retrieval", "ontology", "nutrient">>
    /\ result = Absent
    /\ response = Absent
    /\ llm = Absent
    /\ procs = <<>>
    /\ heap = <<>>
    /\ db = <<>>

\* rag_service = RAGService(); await rag_service.generate_explanation(...)
Stage4Call ==
    /\ pc = "stage4"
    /\ llm = Absent
    /\ calls' = Append(calls, "explanation")
    /\ \E provider \in Providers, canInit \in BOOLEAN :
          llm' = NewLLMClient(provider, canInit)
    /\ pc' = "generate"
    /\ UNCHANGED <<modelLoaded, response, procs, heap, db,
                   indexLoaded, hits, goals, restrictions, graph, graphIdKind,
                   candidates, safe_recipes, ranked_recipes, graphRaised,
                   result>>

\* generate without the `if not self._initialized` fallback: the request on
\* the missing client raises inside the try block of generate
GenerateEnter_no_fallback ==
    /\ pc = "generate"
    /\ LET c == InitClient(llm[1])
       IN  IF c.initialized
           THEN /\ llm' = Some(c)
                /\ pc' = "backend"
                /\ result' = result
           ELSE /\ llm' = Some(c)
                /\ pc' = "done"
                /\ result' = ErrorResult("unhandled exception")
    /\ UNCHANGED <<modelLoaded, response, procs, heap, db,
                   indexLoaded, hits, goals, restrictions, graph, graphIdKind,
                   candidates, safe_recipes, ranked_recipes, graphRaised,
                   calls>>

\* LLMClient.generate up to the first request
GenerateEnter ==
    /\ pc = "generate"
    /\ LET c == InitClient(llm[1])
       IN  IF c.initialized
           THEN /\ llm' = Some(c)
                /\ pc' = "backend"
           ELSE /\ llm' = Some([c EXCEPT !.text = Some("no_backend_configured")])
                /\ pc' = "llm_return"
    /\ UNCHANGED <<modelLoaded, response, procs, heap, db,
                   indexLoaded, hits, goals, restrictions, graph, graphIdKind,
                   candidates, safe_recipes, ranked_recipes, graphRaised,
                   calls, result>>

\* one awaited backend request and what the code does with its outcome
BackendRequest ==
    /\ pc = "backend"
    /\ \E outcome \in Outcomes :
          llm' = Some(IF llm[1].provider = "google"
                      THEN google_attempt(llm[1], outcome)
                      ELSE single_request(llm[1], outcome))
    /\ pc' = IF llm'[1].text = Absent THEN "backend" ELSE "llm_return"
    /\ UNCHANGED <<modelLoaded, response, procs, heap, db,
                   indexLoaded, hits, goals, restrictions, graph, graphIdKind,
                   candidates, safe_recipes, ranked_recipes, graphRaised,
                   calls, result>>

\* the except clause of generate re-raises instead of returning the text
Stage4Return_reraise ==
    /\ pc = "llm_return"
    /\ IF llm[1].text = Some("unavailable")
       THEN /\ result' = ErrorResult("unhandled exception")
            /\ UNCHANGED <<ranked_recipes, safe_recipes, candidates>>
       ELSE ReturnSuccess(llm[1].text[1])
    /\ pc' = "done"
    /\ UNCHANGED <<modelLoaded, response, llm, procs, heap, db,
                   indexLoaded, hits, goals, restrictions, graph, graphIdKind,
                   graphRaised, calls>>

\* generate_explanation returns llm.text; lines 52-59 of the pipeline follow
Stage4Return ==
    /\ pc = "llm_return"
    /\ ReturnSuccess(llm[1].text[1])
    /\ pc' = "done"
    /\ UNCHANGED <<modelLoaded, response, llm, procs, heap, db,
                   indexLoaded, hits, goals, restrictions, graph, graphIdKind,
                   graphRaised, calls>>

ExplainNext == Stage4Call \/ GenerateEnter \/ BackendRequest \/ Stage4Return

ExplainSpec == ExplainInit /\ [][ExplainNext]_vars

\* the event loop resumes a coroutine whose awaited request has completed
ExplainFairSpec == ExplainSpec /\ WF_vars(ExplainNext)

----------------------------------------------------------------------------
(* Properties of the explanation stage                                     *)

\* some request of this generate call was answered by a backend
Answered(c) == \E i \in DOMAIN c.log : c.log[i].outcome = "ok"

\* some request of this generate call failed with a non-rate-limit error
PermanentErrorSeen(c) == \E i \in DOMAIN c.log : c.log[i].outcome = "error"

\* number of requests made on the same model before request i
EarlierOnModel(log, i) ==
    Cardinality({ j \in 1..(i - 1) : log[j].model = log[i].model })

\* C13: when no backend answers (the client could not be initialised, or
\* every request failed), the invocation still ends with status "success"
\* and its primary_explanation is the fallback / unavailable text that
\* generate_explanation returned; nothing is raised.
C13_UnreachableStillSucceeds ==
    (pc = "done" /\ llm # Absent /\ ~Answered(llm[1])) =>
        /\ result # Absent
        /\ result[1].status = "success"
        /\ result[1].primary_explanation = llm[1].text
        /\ llm[1].text \in {Some("no_backend_configured"), Some("unavailable")}
        /\ ~llm[1].initialized =>
              llm[1].text = Some("no_backend_configured") /\ llm[1].log = <<>>

C13_Witness ==
    /\ pc = "done"
    /\ llm # Absent
    /\ ~llm[1].initialized
    /\ result[1].status = "success"
    /\ result[1].primary_explanation = Some("no_backend_configured")

\* C14 as stated: a non-rate-limit error is the last request of the generate
\* call: no request follows it, on the same model or on another one.
C14_Original ==
    llm # Absent =>
        \A i \in DOMAIN llm[1].log :
            llm[1].log[i].outcome = "error" => i = Len(llm[1].log)

\* C14: a non-rate-limit error ends the attempts on the current model (no
\* later request uses that model again), the request that follows it, if
\* any, goes to the next model of the fallback list, and the Google backend
\* gives up on such an error only when the model was the last of the list.
C14_ErrorSkipsToNextModel ==
    llm # Absent =>
        LET c == llm[1]
        IN  \A i \in DOMAIN c.log :
              c.log[i].outcome = "error" =>
                /\ \A j \in DOMAIN c.log :
                      j > i => c.log[j].model > c.log[i].model
                /\ i < Len(c.log) => c.log[i + 1].model = c.log[i].model + 1
                /\ (i = Len(c.log) /\ c.text # Absent
                        /\ c.provider = "google") =>
                      c.log[i].model = Len(GOOGLE_MODEL_FALLBACKS)

C14_Witness ==
    /\ llm # Absent
    /\ Len(llm[1].log) >= 2
    /\ llm[1].log[1].outcome = "error"
    /\ llm[1].log[2].model = 2
    /\ llm[1].log[2].outcome = "ok"
    /\ pc = "done"

\* the request log obeys the retry policy
RetryPolicyObeyed ==
    llm # Absent =>
        LET c == llm[1]
            log == c.log
            nModels == Len(GOOGLE_MODEL_FALLBACKS)
        IN  /\ Len(log) <= MAX_RETRIES * nModels
            /\ \A m \in 1..nModels :
                  Cardinality({ i \in DOMAIN log : log[i].model = m })
                      <= MAX_RETRIES
            /\ \A i \in DOMAIN log :
                  (log[i].outcome = "rate_limit" /\ c.provider = "google") =>
                    LET k == EarlierOnModel(log, i)
                    IN  /\ log[i].delay = Some(RETRY_BASE_DELAY * Pow2(k))
                        /\ i < Len(log) =>
                              log[i + 1].model =
                                 IF k + 1 < MAX_RETRIES THEN log[i].model
                                 ELSE log[i].model + 1
                        /\ (i = Len(log) /\ c.text # Absent) =>
                              /\ k + 1 = MAX_RETRIES
                              /\ log[i].model = nModels
                              /\ c.text = Some("unavailable")

\* C15: every generate call makes at most MAX_RETRIES requests per model and
\* MAX_RETRIES * (number of fallback models) in all; the k-th rate-limited
\* request on a model is followed by a sleep of RETRY_BASE_DELAY * 2^k; it
\* is retried on the same model while attempts remain and otherwise passed
\* to the next model; after the last model generate gives up; and the
\* invocation always ends.
C15_BoundedRetriesAndTermination ==
    []RetryPolicyObeyed /\ <>(pc = "done")

C15_Witness ==
    /\ pc = "done"
    /\ llm # Absent
    /\ Len(llm[1].log) = MAX_RETRIES * Len(GOOGLE_MODEL_FALLBACKS)
    /\ \A i \in DOMAIN llm[1].log : llm[1].log[i].outcome = "rate_limit"
    /\ llm[1].log[2].delay = Some(RETRY_BASE_DELAY * 2)

\* C16 as stated: an invocation whose generate call met a permanent error
\* does not end with a success result.
C16_Original ==
    (pc = "done" /\ llm # Absent /\ PermanentErrorSeen(llm[1])) =>
        result[1].status # "success"

\* C16: an invocation whose generate call met a permanent error still ends
\* with status "success"; its primary_explanation is the text of a later
\* fallback model when one answered, else the "AI response unavailable" text.
C16_PermanentErrorDegrades ==
    (pc = "done" /\ llm # Absent /\ PermanentErrorSeen(llm[1])) =>
        /\ result # Absent
        /\ result[1].status = "success"
        /\ result[1].top_recommendations # <<>>
        /\ result[1].primary_explanation =
              IF Answered(llm[1]) THEN Some("llm_text")
              ELSE Some("unavailable")

C16_Witness ==
    /\ pc = "done"
    /\ llm # Absent
    /\ llm[1].provider = "openai"
    /\ PermanentErrorSeen(llm[1])
    /\ result[1].status = "success"
    /\ result[1].primary_explanation = Some("unavailable")

----------------------------------------------------------------------------
(* Two invocations of run_hybrid_pipeline on one event loop                *)
(* procs[p] holds the locals of invocation p; its lists hold addresses of  *)
(* candidate dicts in heap, each dict tagged with the invocation that      *)
(* created it.  The loaded index, the model and the graph are only read.   *)

Procs == {1, 2}

ConcHitLists == { h \in HitLists : \A i \in DOMAIN h : h[i].hasRow }

ConcRestrictionLists == { <<>>, << <<"p">> >> }

ConcGoals == {Absent, Some(500), Some(700)}

\* recipe 1 is linked to an ingredient matching "p", recipe 2 to none
ConcGraph == [n \in Ids |-> IF n = 1 THEN Some({<<"P", "b">>}) ELSE Some({})]

Local(h, g, r) ==
    [pc |-> "start", hits |-> h, goals |-> g, restrictions |-> r,
     candidates |-> <<>>, safe_recipes |-> <<>>, ranked_recipes |-> <<>>,
     explanation |-> Absent, result |-> Absent]

\* the dicts a list of addresses refers to
Deref(refs) == [i \in DOMAIN refs |-> heap[refs[i]].d]

\* the address, among refs, of the dict with this uid
AddrOf(refs, uid) ==
    refs[CHOOSE i \in DOMAIN refs : heap[refs[i]].d.uid = uid]

\* the list of addresses for a list of dicts taken from Deref(refs)
Refs(refs, dicts) == [i \in DOMAIN dicts |-> AddrOf(refs, dicts[i].uid)]

\* a retrieval that keeps one dict per recipe and hands it to every caller
Allocate_cached(p, found) ==
    LET cached(i) == { a \in DOMAIN heap : heap[a].d.uid = found[i].uid }
        fresh == SelectSeq(found, LAMBDA c :
                     \A a \in DOMAIN heap : heap[a].d.uid # c.uid)
        newHeap == heap \o [i \in DOMAIN fresh |-> [owner |-> p, d |-> fresh[i]]]
    IN  [heap |-> newHeap,
         refs |-> [i \in DOMAIN found |->
                     CHOOSE a \in DOMAIN newHeap :
                        newHeap[a].d.uid = found[i].uid]]

\* candidates.append({...}): every call of get_candidates builds new dicts
Allocate(p, found) ==
    [heap |-> heap \o [i \in DOMAIN found |-> [owner |-> p, d |-> found[i]]],
     refs |-> [i \in DOMAIN found |-> Len(heap) + i]]

ConcInit ==
    /\ pc = "concurrent"
    /\ modelLoaded = TRUE
    /\ indexLoaded = TRUE
    /\ hits = <<>>
    /\ goals = Absent
    /\ restrictions = <<>>
    /\ graph = ConcGraph
    /\ graphIdKind = "int"
    /\ candidates = <<>>
    /\ safe_recipes = <<>>
    /\ ranked_recipes = <<>>
    /\ graphRaised = FALSE
    /\ calls = <<>>
    /\ result = Absent
    /\ response = Absent
    /\ llm = Absent
    /\ procs \in [Procs -> { Local(h, g, r) : h \in ConcHitLists,
                                g \in ConcGoals,
                                r \in ConcRestrictionLists }]
    /\ heap = <<>>
    /\ db = <<>>

ConcUnchanged ==
    UNCHANGED <<pc, modelLoaded, indexLoaded, hits, goals, restrictions,
                graph, graphIdKind, candidates, safe_recipes, ranked_recipes,
                graphRaised, calls, result, response, llm, db>>

ErrorLocal(q, msg) == [q EXCEPT !.pc = "done", !.result = ErrorResult(msg)]

ConcStage1(p) ==
    /\ procs[p].pc = "start"
    /\ LET q == procs[p]
           found == get_candidates(indexLoaded /\ modelLoaded, q.hits, FALSE)
           al == Allocate(p, found)
       IN  /\ heap' = al.heap
           /\ procs' = [procs EXCEPT ![p] =
                 IF found = <<>> THEN ErrorLocal(q, NoRecipesFound)
                 ELSE [q EXCEPT !.pc = "stage2", !.candidates = al.refs]]
    /\ ConcUnchanged

ConcStage2(p) ==
    /\ procs[p].pc = "stage2"
    /\ LET q == procs[p]
           r == filter_unsafe_recipes(Deref(q.candidates), q.restrictions,
                                      graph, graphIdKind, FALSE)
           safe == Refs(q.candidates, r.ret)
       IN  procs' = [procs EXCEPT ![p] =
                 IF safe = <<>>
                 THEN [ErrorLocal(q, NoneSafe) EXCEPT !.safe_recipes = safe]
                 ELSE [q EXCEPT !.pc = "stage3", !.safe_recipes = safe]]
    /\ heap' = heap
    /\ ConcUnchanged

ConcStage3(p) ==
    /\ procs[p].pc = "stage3"
    /\ LET q == procs[p]
           safe == Deref(q.safe_recipes)
           ranked == Refs(q.safe_recipes, rank_by_nutrition(safe, q.goals))
       IN  /\ heap' = [a \in DOMAIN heap |->
                 IF ScoringBranch(safe, q.goals) /\ a \in Range(q.safe_recipes)
                 THEN [heap[a] EXCEPT !.d = Scored(heap[a].d, q.goals[1])]
                 ELSE heap[a]]
           /\ procs' = [procs EXCEPT ![p] =
                 IF ranked = <<>>
                 THEN [ErrorLocal(q, RankFailed) EXCEPT !.ranked_recipes = ranked]
                 ELSE [q EXCEPT !.pc = "stage4", !.ranked_recipes = ranked]]
    /\ ConcUnchanged

\* best_recipe = ranked_recipes[0]; the coroutine suspends in
\* await rag_service.generate_explanation(...)
ConcStage4Call(p) ==
    /\ procs[p].pc = "stage4"
    /\ procs' = [procs EXCEPT ![p].pc = "await"]
    /\ heap' = heap
    /\ ConcUnchanged

\* the await returns; lines 52-59 run without suspending
ConcStage4Return(p) ==
    /\ procs[p].pc = "await"
    /\ \E explanation \in Explanations :
         LET q == procs[p]
             best == q.ranked_recipes[1]
         IN  /\ heap' = [heap EXCEPT ![best].d.explanation = Some(explanation)]
             /\ procs' = [procs EXCEPT ![p] =
                   [q EXCEPT !.pc = "done",
                             !.explanation = Some(explanation),
                             !.result = SuccessResult(q.ranked_recipes,
                                                      explanation)]]
    /\ ConcUnchanged

ConcNext ==
    \E p \in Procs :
        \/ ConcStage1(p)
        \/ ConcStage2(p)
        \/ ConcStage3(p)
        \/ ConcStage4Call(p)
        \/ ConcStage4Return(p)

ConcSpec == ConcInit /\ [][ConcNext]_vars

\* the result of one invocation run alone on the inputs of q, given the
\* explanation text its generate call returned
SoloResult(q) ==
    LET c == get_candidates(TRUE, q.hits, FALSE)
        s == filter_unsafe_recipes(c, q.restrictions, graph, graphIdKind,
                                   FALSE).ret
        r == rank_by_nutrition(s, q.goals)
    IN  IF c = <<>> THEN ErrorResult(NoRecipesFound)
        ELSE IF s = <<>> THEN ErrorResult(NoneSafe)
        ELSE IF r = <<>> THEN ErrorResult(RankFailed)
        ELSE SuccessResult(WithExplanation(r, r[1], q.explanation[1]),
                           q.explanation[1])

\* a returned result with its recommendation dicts read from the heap
ResultValue(res) ==
    Some([res[1] EXCEPT !.top_recommendations = Deref(@)])

\* C20: in every interleaving of two invocations, every dict an invocation
\* holds in its candidate, safe or ranked list (or in its result) was created
\* by that invocation, and the result of a finished invocation, read at any
\* later time, is the result the invocation returns when run alone.
C20_NoSharedMutableState ==
    \A p \in DOMAIN procs :
        LET q == procs[p]
        IN  /\ \A a \in Range(q.candidates) \cup Range(q.safe_recipes)
                       \cup Range(q.ranked_recipes) : heap[a].owner = p
            /\ q.pc = "done" =>
                  /\ \A a \in Range(q.result[1].top_recommendations) :
                        heap[a].owner = p
                  /\ ResultValue(q.result) = SoloResult(q)

\* both invocations finished with success on the same two recipes, with
\* different goals and different explanation texts; invocation 1 created
\* its dicts first and invocation 2 created its own afterwards
C20_Witness ==
    /\ DOMAIN procs = Procs
    /\ procs[1].pc = "done" /\ procs[2].pc = "done"
    /\ procs[1].hits = procs[2].hits
    /\ Len(procs[1].hits) = 2
    /\ procs[1].goals = Absent /\ procs[2].goals = Some(500)
    /\ procs[1].result[1].status = "success"
    /\ procs[2].result[1].status = "success"
    /\ heap[1].owner = 1
    /\ heap[Len(heap)].owner = 2
    /\ procs[1].explanation # procs[2].explanation

----------------------------------------------------------------------------
(* More properties of filter_unsafe_recipes (FilterSpec)                   *)

\* C23 as stated: with a non-empty restriction list every returned candidate
\* carries a recipe_id, so a candidate that could not be checked against
\* the graph is never returned.
C23_Original ==
    (FilterDone /\ restrictions # <<>>) =>
        \A j \in DOMAIN safe_recipes : HasId(safe_recipes[j])

----------------------------------------------------------------------------
(* The SQL-backed services: every variable but db is idle                  *)

pipelineVars ==
    <<pc, indexLoaded, hits, goals, restrictions, graph, graphIdKind,
      candidates, safe_recipes, ranked_recipes, graphRaised, calls, result,
      modelLoaded, response, llm, procs, heap>>

IdleInit(label) ==
    /\ pc = label
    /\ modelLoaded = TRUE
    /\ indexLoaded = TRUE
    /\ hits = <<>>
    /\ goals = Absent
    /\ restrictions = <<>>
    /\ graph = [n \in Ids |-> Absent]
    /\ graphIdKind = "int"
    /\ candidates = <<>>
    /\ safe_recipes = <<>>
    /\ ranked_recipes = <<>>
    /\ graphRaised = FALSE
    /\ calls = <<>>
    /\ result = Absent
    /\ response = Absent
    /\ llm = Absent
    /\ heap = <<>>

Users == {"u1", "u2"}

----------------------------------------------------------------------------
(* POST /nutrition/goals: create_nutrition_goal                            *)

MaxGoals == 4

CalorieTargets == {1600, 2500}

\* the deactivating UPDATE is left out
DeactivateGoals_none(rows, user) == rows

\* db.query(NutritionGoal).filter(user_id == user, is_active == True)
\*   .update({"is_active": False})
DeactivateGoals(rows, user) ==
    [i \in DOMAIN rows |->
        IF rows[i].user_id = user /\ rows[i].is_active
        THEN [rows[i] EXCEPT !.is_active = FALSE]
        ELSE rows[i]]

\* db.add(NutritionGoal(..., is_active=True)); ids grow with creation order
AddGoal(rows, user, target) ==
    Append(rows, [id |-> Len(rows) + 1, user_id |-> user,
                  daily_calorie_target |-> target, is_active |-> TRUE])

GoalInit ==
    /\ IdleInit("goals")
    /\ procs = <<>>
    /\ db = [nutrition_goals |-> <<>>]

\* the handler as one transaction: committed, or rolled back after an
\* exception (HTTP 500) with no row changed
create_nutrition_goal ==
    /\ Len(db.nutrition_goals) < MaxGoals
    /\ \E user \in Users, target \in CalorieTargets, raises \in BOOLEAN :
          db' = IF raises THEN db
                ELSE [db EXCEPT !.nutrition_goals =
                        AddGoal(DeactivateGoals(@, user), user, target)]
    /\ UNCHANGED pipelineVars

GoalNext == create_nutrition_goal

GoalSpec == GoalInit /\ [][GoalNext]_vars

GoalsOf(user) ==
    { i \in DOMAIN db.nutrition_goals : db.nutrition_goals[i].user_id = user }

\* C21: for every user that has created goals, the goal created last is
\* active and every earlier goal of that user is inactive (so exactly one
\* is active).
C21_OnlyLatestGoalActive ==
    \A user \in Users :
        \A i \in GoalsOf(user) :
            db.nutrition_goals[i].is_active
                <=> (\A j \in GoalsOf(user) : j <= i)

C21_Witness ==
    /\ Cardinality(GoalsOf("u1")) >= 2
    /\ Cardinality(GoalsOf("u2")) >= 1
    /\ db.nutrition_goals[1].user_id = "u1"
    /\ ~db.nutrition_goals[1].is_active
    /\ db.nutrition_goals[Len(db.nutrition_goals)].user_id = "u1"
    /\ db.nutrition_goals[Len(db.nutrition_goals)].is_active

----------------------------------------------------------------------------
(* shopping_list_service: one list, two request threads                    *)
(* The endpoints are plain `def` handlers run on the thread pool.  A       *)
(* request loads the list and its items into its own Session, changes the  *)
(* loaded objects, and its commit writes the changed columns with the      *)
(* values computed from what was loaded.                                   *)

MaxItems == 3

MaxIngredients == 2

MaxOps == 4

Requests == {1, 2}

\* the owner of the meal plan the list is generated from
PlanOwner == "u1"

ItemOps == {"add", "update", "delete", "complete"}

\* `is_purchased` in the PUT body: not sent, null, true or false
PurchasedUpdates == {Absent, Some(Absent), Some(Some(TRUE)), Some(Some(FALSE))}

NoListError == "Shopping list not found or not accessible"

NoItemError == "Item not found in shopping list"

NoPlanError == "Meal plan not found or not accessible"

StaleDataError == "StaleDataError"

NewItem(manual) == [is_purchased |-> Some(FALSE), is_manual |-> manual]

\* Python truthiness of the nullable Boolean column
IsPurchased(item) == item.is_purchased = Some(TRUE)

IdleRequest(user, err) ==
    [phase |-> "idle", op |-> "none", user_id |-> user, list |-> Absent,
     items |-> <<>>, item_id |-> 0, upd |-> Absent, error |-> err]

\* get_shopping_list(db, user_id, list_id) finds any list, whoever owns it
get_shopping_list_any_user(user) == db.shopping_list

\* get_shopping_list(db, user_id, list_id): filter on id and user_id
get_shopping_list(user) ==
    IF db.shopping_list # Absent /\ db.shopping_list[1].user_id = user
    THEN db.shopping_list
    ELSE Absent

ShopInit ==
    /\ IdleInit("shopping")
    /\ procs = [r \in Requests |-> IdleRequest(PlanOwner, Absent)]
    /\ db = [shopping_list |-> Absent, items |-> <<>>, next_id |-> 1,
             ops |-> 0]

ShopUnchanged ==
    UNCHANGED <<pc, indexLoaded, hits, goals, restrictions, graph,
                graphIdKind, candidates, safe_recipes, ranked_recipes,
                graphRaised, calls, result, modelLoaded, response, llm, heap>>

\* generate_shopping_list: the plan is looked up by id and user_id; the list
\* gets one unpurchased item per consolidated ingredient
generate_shopping_list(r) ==
    /\ procs[r].phase = "idle"
    /\ db.shopping_list = Absent
    /\ \E user \in Users, n \in 0..MaxIngredients :
          IF user # PlanOwner
          THEN /\ procs' = [procs EXCEPT ![r] = IdleRequest(user, Some(NoPlanError))]
               /\ db' = db
          ELSE /\ procs' = [procs EXCEPT ![r] = IdleRequest(user, Absent)]
               /\ db' = [db EXCEPT
                    !.shopping_list =
                        Some([user_id |-> user, status |-> "active",
                              total_items |-> n, purchased_items |-> 0]),
                    !.items = [i \in 1..n |-> NewItem(FALSE)],
                    !.next_id = n + 1]
    /\ ShopUnchanged

\* the part of add_manual_item, update_shopping_list_item,
\* delete_shopping_list_item and complete_shopping_list before any write:
\* load the list (with its items) and find the item
LoadRequestFrom(r, Ops, Callers, ItemIds, Updates) ==
    /\ procs[r].phase = "idle"
    /\ db.ops < MaxOps
    /\ \E op \in Ops, user \in Callers, item_id \in ItemIds, upd \in Updates :
          LET shopping_list == get_shopping_list(user)
          IN  /\ op = "add" => db.next_id <= MaxItems
              /\ op \in {"add", "complete"} => item_id = 1
              /\ op # "update" => upd = Absent
              /\ procs' = [procs EXCEPT ![r] =
                    IF shopping_list = Absent
                    THEN IdleRequest(user, Some(NoListError))
                    ELSE IF op \in {"update", "delete"}
                            /\ item_id \notin DOMAIN db.items
                    THEN IdleRequest(user, Some(NoItemError))
                    ELSE [phase |-> "loaded", op |-> op, user_id |-> user,
                          list |-> shopping_list, items |-> db.items,
                          item_id |-> item_id, upd |-> upd, error |-> Absent]]
    /\ db' = [db EXCEPT !.ops = @ + 1]
    /\ ShopUnchanged

LoadRequest(r) ==
    LoadRequestFrom(r, ItemOps, Users, 1..MaxItems, PurchasedUpdates)

\* UPDATE shopping_lists SET col = new: the unit of work writes the column
\* only when the attribute differs from the loaded value
WriteCol(row, loaded, col, new) ==
    IF new = loaded[col] THEN row ELSE [row EXCEPT ![col] = new]

\* the item rows this request updates or deletes still exist
RowsExist(q) ==
    CASE q.op \in {"update", "delete"} -> q.item_id \in DOMAIN db.items
      [] q.op = "complete" ->
            \A i \in DOMAIN q.items :
                ~IsPurchased(q.items[i]) => i \in DOMAIN db.items
      [] OTHER -> TRUE

\* the list counters a request computes from what it loaded
NewTotal(q) ==
    CASE q.op = "add" -> q.list[1].total_items + 1
      [] q.op = "delete" -> q.list[1].total_items - 1
      [] OTHER -> q.list[1].total_items

NewPurchased(q) ==
    LET was_purchased == IF q.op \in {"update", "delete"}
                         THEN q.items[q.item_id].is_purchased ELSE Absent
        new == IF q.upd = Absent THEN Absent ELSE q.upd[1]
    IN  CASE q.op = "update" ->
                IF new # Absent /\ new # was_purchased
                THEN IF new = Some(TRUE)
                     THEN q.list[1].purchased_items + 1
                     ELSE q.list[1].purchased_items - 1
                ELSE q.list[1].purchased_items
          [] q.op = "delete" ->
                IF was_purchased = Some(TRUE)
                THEN q.list[1].purchased_items - 1
                ELSE q.list[1].purchased_items
          [] q.op = "complete" -> q.list[1].total_items
          [] OTHER -> q.list[1].purchased_items

\* the item rows after the request's flush
NewItems(q) ==
    CASE q.op = "add" ->
            [i \in DOMAIN db.items \cup {db.next_id} |->
                IF i = db.next_id THEN NewItem(TRUE) ELSE db.items[i]]
      [] q.op = "update" ->
            IF q.upd = Absent \/ q.upd[1] = q.items[q.item_id].is_purchased
            THEN db.items
            ELSE [db.items EXCEPT ![q.item_id].is_purchased = q.upd[1]]
      [] q.op = "delete" ->
            [i \in DOMAIN db.items \ {q.item_id} |-> db.items[i]]
      [] OTHER ->
            [i \in DOMAIN db.items |->
                IF i \in DOMAIN q.items /\ ~IsPurchased(q.items[i])
                THEN [db.items[i] EXCEPT !.is_purchased = Some(TRUE)]
                ELSE db.items[i]]

\* the shopping_lists row after the request's flush
NewList(q) ==
    LET row1 == WriteCol(db.shopping_list[1], q.list[1], "total_items",
                         NewTotal(q))
        row2 == WriteCol(row1, q.list[1], "purchased_items", NewPurchased(q))
    IN  Some(IF q.op = "complete"
             THEN WriteCol(row2, q.list[1], "status", "completed")
             ELSE row2)

\* db.commit() of the loaded request; an UPDATE or DELETE of a row that is
\* gone raises and the transaction is rolled back
CommitRequest(r) ==
    /\ procs[r].phase = "loaded"
    /\ LET q == procs[r]
       IN  IF ~RowsExist(q)
           THEN /\ db' = db
                /\ procs' = [procs EXCEPT ![r] =
                                IdleRequest(q.user_id, Some(StaleDataError))]
           ELSE /\ db' = [db EXCEPT
                      !.shopping_list = NewList(q),
                      !.items = NewItems(q),
                      !.next_id = IF q.op = "add" THEN @ + 1 ELSE @]
                /\ procs' = [procs EXCEPT ![r] = IdleRequest(q.user_id, Absent)]
    /\ ShopUnchanged

ShopNext ==
    \E r \in Requests :
        \/ generate_shopping_list(r)
        \/ LoadRequest(r)
        \/ CommitRequest(r)

ShopSpec == ShopInit /\ [][ShopNext]_vars

PurchasedCount ==
    Cardinality({ i \in DOMAIN db.items : IsPurchased(db.items[i]) })

\* C24 as stated: in every reachable state of a list, total_items is the
\* number of its items, purchased_items the number of its purchased items,
\* and 0 <= purchased_items <= total_items.
C24_Original ==
    db.shopping_list # Absent =>
        /\ db.shopping_list[1].total_items = Cardinality(DOMAIN db.items)
        /\ db.shopping_list[1].purchased_items = PurchasedCount
        /\ 0 <= db.shopping_list[1].purchased_items
        /\ db.shopping_list[1].purchased_items
              <= db.shopping_list[1].total_items

\* C25 as stated: a completed list has every item purchased and
\* purchased_items = total_items, whatever was called after completion.
C25_Original ==
    (db.shopping_list # Absent /\ db.shopping_list[1].status = "completed") =>
        /\ \A i \in DOMAIN db.items : IsPurchased(db.items[i])
        /\ db.shopping_list[1].purchased_items
              = db.shopping_list[1].total_items

----------------------------------------------------------------------------
(* meal_plan_service: recipe library, preference profile, validation       *)

MEAL_TYPES == <<"breakfast", "lunch", "dinner">>

\* MEAL_SPLITS in percent
MEAL_SPLITS == [breakfast |-> 25, lunch |-> 35, dinner |-> 40]

DEFAULT_CALORIE_TARGET == 2000

DEFAULT_SERVINGS == 1

\* CALORIE_TOLERANCE = 0.05, in percent
CALORIE_TOLERANCE == 5

\* range(7) in _build_slots; week_end_date = week_start + 6 days
DAYS == 7

\* the keywords banned by a restriction (one restriction, one keyword)
DIETARY_BLOCKLIST == [vegan |-> { <<"b">> }]

RecipeRecord(id, ingredients, calories, cost, prep) ==
    [recipe_id |-> id, ingredient_set |-> ingredients, calories |-> calories,
     estimated_cost |-> cost, prep_time_minutes |-> prep]

\* the library, sorted by title.  r1 and r4 have the same nutrition, cost
\* and prep time; r2 holds the allergen "p", r3 the keyword banned for vegans
Library ==
    << RecipeRecord("r1", { <<"x">> }, 500, 4, 20),
       RecipeRecord("r2", { <<"p", "x">> }, 600, 8, 60),
       RecipeRecord("r3", { <<"b">>, <<"x">> }, 700, 6, 30),
       RecipeRecord("r4", { <<"x", "x">> }, 500, 4, 20) >>

\* _recipe_id_lookup().get(recipe_id)
recipe_id_lookup(id) ==
    IF \E i \in DOMAIN Library : Library[i].recipe_id = id
    THEN Some(Library[CHOOSE i \in DOMAIN Library : Library[i].recipe_id = id])
    ELSE Absent

\* _has_any_keyword(parts, keywords): keyword in part.lower()
has_any_keyword(parts, keywords) ==
    \E part \in parts, keyword \in keywords : Contains(Lower(part), keyword)

violates_diet(record, dietary_restrictions) ==
    \E i \in DOMAIN dietary_restrictions :
        /\ dietary_restrictions[i] \in DOMAIN DIETARY_BLOCKLIST
        /\ has_any_keyword(record.ingredient_set,
                           DIETARY_BLOCKLIST[dietary_restrictions[i]])

violates_allergies(record, allergies) ==
    has_any_keyword(record.ingredient_set,
                    { Lower(allergies[i]) : i \in DOMAIN allergies })

\* a preferences row or an override: every field optional but the lists
Preferences(diet, allergies, calories, time, budget, people) ==
    [dietary_restrictions |-> diet, allergies |-> allergies,
     calorie_target |-> calories, cooking_time_max |-> time,
     budget_per_week |-> budget, people_count |-> people]

\* override.model_dump(exclude_none=True) applied over the stored row
Overridden(base, override) ==
    IF override = Absent THEN base
    ELSE [f \in DOMAIN base |->
            IF override[1][f] # Absent THEN override[1][f] ELSE base[f]]

\* _build_preference_profile: lists are set or empty, strings lowercased,
\* people_count = max(1, people_count or DEFAULT_SERVINGS)
build_preference_profile(user_preferences, override) ==
    LET base == Overridden(user_preferences, override)
        lst(v) == IF v = Absent THEN <<>> ELSE v[1]
        people == IF Truthy(base.people_count) THEN base.people_count[1]
                  ELSE DEFAULT_SERVINGS
    IN  [dietary_restrictions |-> lst(base.dietary_restrictions),
         allergies |-> [i \in DOMAIN lst(base.allergies) |->
                           Lower(lst(base.allergies)[i])],
         calorie_target |-> base.calorie_target,
         cooking_time_max |-> base.cooking_time_max,
         budget_per_week |-> base.budget_per_week,
         people_count |-> IF people >= 1 THEN people ELSE 1]

\* _weekly_calorie_target
weekly_calorie_target(profile) ==
    IF ~Truthy(profile.calorie_target) THEN Absent
    ELSE Some(profile.calorie_target[1] * 7 * profile.people_count)

ErrorCodes ==
    {"calorie_target_miss", "budget_exceeded",
     "dietary_restriction_violation", "allergy_violation"}

WarningCodes == {"recipe_metadata_missing", "prep_time_exceeded"}

\* the issue codes one item contributes
ItemIssues(item, profile) ==
    LET record == recipe_id_lookup(item.recipe_id)
    IN  IF record = Absent THEN {"recipe_metadata_missing"}
        ELSE (IF violates_diet(record[1], profile.dietary_restrictions)
              THEN {"dietary_restriction_violation"} ELSE {})
             \cup
             (IF violates_allergies(record[1], profile.allergies)
              THEN {"allergy_violation"} ELSE {})
             \cup
             (IF /\ Truthy(profile.cooking_time_max)
                 /\ item.prep_time_minutes # 0
                 /\ item.prep_time_minutes > profile.cooking_time_max[1]
              THEN {"prep_time_exceeded"} ELSE {})

\* _run_validation_checks, as the set of issue codes; items is what
\* plan.items holds in the calling Session
run_validation_checks(plan, items, profile) ==
    LET weekly_target == weekly_calorie_target(profile)
    IN  (IF /\ Truthy(weekly_target)
            /\ 100 * Abs(plan.total_calories - weekly_target[1])
                  > CALORIE_TOLERANCE * weekly_target[1]
         THEN {"calorie_target_miss"} ELSE {})
        \cup
        (IF /\ Truthy(profile.budget_per_week)
            /\ plan.total_estimated_cost > profile.budget_per_week[1]
         THEN {"budget_exceeded"} ELSE {})
        \cup
        UNION { ItemIssues(items[i], profile) : i \in DOMAIN items }

RECURSIVE SumOver(_, _)
SumOver(S, f) ==
    IF S = {} THEN 0
    ELSE LET x == CHOOSE y \in S : TRUE
         IN  f[x] + SumOver(S \ {x}, f)

\* _build_summary_payload(include_meals=False): totals per day and overall
build_summary_payload(plan, items) ==
    LET calories == [i \in DOMAIN items |-> items[i].calories]
        daily == [day \in 0..(DAYS - 1) |->
                    SumOver({ i \in DOMAIN items : items[i].day_of_week = day },
                            calories)]
    IN  [total |-> SumOver(DOMAIN daily, daily), daily |-> daily,
         total_estimated_cost |-> plan.total_estimated_cost]

\* not any(issue["severity"] == "error" for issue in issues)
IsValid(issues) == issues \cap ErrorCodes = {}

\* _refresh_plan_state on the plan row, with the items the Session sees
refresh_plan_state(plan, items, profile, refresh_summary) ==
    LET issues == run_validation_checks(plan, items, profile)
        row == [plan EXCEPT !.is_valid = IsValid(issues),
                            !.validation_issues = issues,
                            !.last_validated = TRUE]
    IN  IF refresh_summary
        THEN [row EXCEPT !.summary_snapshot =
                            Some(build_summary_payload(plan, items))]
        ELSE row

MealPlanRow(user, calories, cost) ==
    [user_id |-> user, total_calories |-> calories,
     total_estimated_cost |-> cost, is_valid |-> TRUE,
     validation_issues |-> {}, last_validated |-> FALSE,
     summary_snapshot |-> Absent]

MealPlanItem(day, meal, recipe_id, servings, calories, cost, prep) ==
    [day_of_week |-> day, meal_type |-> meal, recipe_id |-> recipe_id,
     servings |-> servings, calories |-> calories, estimated_cost |-> cost,
     prep_time_minutes |-> prep]

\* what the last call of a request thread was and how it ended
PlanCall(op, user, args, err) ==
    [phase |-> "idle", op |-> op, user_id |-> user, args |-> args,
     error |-> err]

NoPlanFound == "Meal plan not found"

PlanUnchanged ==
    UNCHANGED <<pc, indexLoaded, hits, goals, restrictions, graph,
                graphIdKind, candidates, safe_recipes, ranked_recipes,
                graphRaised, calls, result, modelLoaded, response, llm, heap>>

\* calls on the plan in one behaviour
MaxPlanOps == 3

NoOverride == Preferences(Absent, Absent, Absent, Absent, Absent, Absent)

\* validate_meal_plan: a new Session loads the plan with its items
validate_meal_plan(r, Callers, Overrides) ==
    /\ procs[r].phase = "idle"
    /\ db.plan_ops < MaxPlanOps
    /\ \E user \in Callers, override \in Overrides, refresh \in BOOLEAN :
         LET args == [override |-> override, refresh |-> refresh]
             plan == db.plan
         IN  IF plan = Absent
             THEN /\ procs' = [procs EXCEPT ![r] =
                        PlanCall("validate", user, args, Some(NoPlanFound))]
                  /\ db' = [db EXCEPT !.plan_ops = @ + 1]
             ELSE IF plan[1].user_id # user
             THEN /\ procs' = [procs EXCEPT ![r] =
                        PlanCall("validate", user, args,
                                 Some("Not authorized to validate this meal plan"))]
                  /\ db' = [db EXCEPT !.plan_ops = @ + 1]
             ELSE /\ procs' = [procs EXCEPT ![r] =
                        PlanCall("validate", user, args, Absent)]
                  /\ db' = IF override = Absent /\ ~refresh
                              /\ plan[1].last_validated
                           THEN [db EXCEPT !.plan_ops = @ + 1]
                           ELSE [db EXCEPT
                                   !.plan = Some(refresh_plan_state(
                                      plan[1], db.plan_items,
                                      build_preference_profile(db.preferences,
                                                               override),
                                      FALSE)),
                                   !.plan_ops = @ + 1]
    /\ PlanUnchanged

----------------------------------------------------------------------------
(* ValidateSpec: validation of stored plans, drawn from bounded sets        *)

MaxPlanItems == 2

\* weekly totals around 7 * 1500: within 5%, on target, more than 5% off
PlanCalories == {10000, 10500, 11100}

PlanCosts == {84, 90}

ItemRecipeIds == {"r1", "r2", "r3", "zz"}

\* an item as generate_meal_plan stores it for a recipe, "zz" unknown
StoredItem(day, meal, id, servings) ==
    LET record == recipe_id_lookup(id)
    IN  IF record = Absent
        THEN MealPlanItem(day, meal, id, servings, 0, 0, 0)
        ELSE MealPlanItem(day, meal, id, servings, record[1].calories,
                          record[1].estimated_cost * servings,
                          record[1].prep_time_minutes)

StoredPreferences ==
    { Preferences(diet, allergies, calories, time, budget, people) :
        diet \in {Absent, Some(<<"vegan">>)},
        allergies \in {Absent, Some(<< <<"P">> >>)},
        calories \in {Absent, Some(0), Some(1500)},
        time \in {Absent, Some(30)},
        budget \in {Absent, Some(0), Some(84)},
        people \in {Absent} }

PlanDb(preferences, plan, items) ==
    [preferences |-> preferences, plan |-> plan, plan_items |-> items,
     next_item_id |-> Len(items) + 1, plan_ops |-> 0]

ValidateInit ==
    /\ IdleInit("validation")
    /\ procs = <<PlanCall("none", PlanOwner, <<>>, Absent)>>
    /\ \E preferences \in StoredPreferences, calories \in PlanCalories,
          cost \in PlanCosts, ids \in SeqsUpTo(ItemRecipeIds, MaxPlanItems) :
         db = PlanDb(preferences,
                     Some(MealPlanRow(PlanOwner, calories, cost)),
                     [i \in DOMAIN ids |->
                         StoredItem(0, MEAL_TYPES[i], ids[i], 1)])

ValidateNext == validate_meal_plan(1, Users, {Absent})

ValidateSpec == ValidateInit /\ [][ValidateNext]_vars

\* the four conditions, for the stored plan and the stored preferences
CaloriesMissTarget(plan, profile) ==
    /\ profile.calorie_target # Absent
    /\ LET target == profile.calorie_target[1] * 7 * profile.people_count
       IN  100 * Abs(plan.total_calories - target) > 5 * target

CostExceedsBudget(plan, profile) ==
    /\ profile.budget_per_week # Absent
    /\ plan.total_estimated_cost > profile.budget_per_week[1]

SomeItemViolates(items, profile) ==
    \E i \in DOMAIN items :
        LET record == recipe_id_lookup(items[i].recipe_id)
        IN  /\ record # Absent
            /\ \/ violates_diet(record[1], profile.dietary_restrictions)
               \/ violates_allergies(record[1], profile.allergies)

\* C22 as stated: after a validation refresh the plan is marked valid
\* exactly when its calories are within 5% of calorie_target * 7 *
\* people_count, its cost is within the weekly budget and no item's recipe
\* violates a dietary restriction or holds an allergen.
C22_Original ==
    (db.plan # Absent /\ db.plan[1].last_validated) =>
        LET profile == build_preference_profile(db.preferences, Absent)
        IN  db.plan[1].is_valid <=>
               ~ \/ CaloriesMissTarget(db.plan[1], profile)
                 \/ CostExceedsBudget(db.plan[1], profile)
                 \/ SomeItemViolates(db.plan_items, profile)

----------------------------------------------------------------------------
(* MealPlanEngine: candidate pool, slots, recipe choice                     *)

MIN_CANDIDATE_POOL == 90

\* what one build_plan call draws: the order in which the vector search
\* lists the library, the order random.shuffle leaves the fallback in, and
\* the outcomes of random.choice (slot k takes pool[(seed * k) mod n])
PoolDraws ==
    { [order |-> <<1, 2, 3, 4>>, shuffle |-> <<4, 3, 2, 1>>, seed |-> 0],
      [order |-> <<3, 4, 2, 1>>, shuffle |-> <<2, 1, 4, 3>>, seed |-> 1] }

InOrder(order) == [i \in DOMAIN order |-> Library[order[i]]]

\* _filter_by_preferences (no cuisine preference is set)
filter_by_preferences(records, profile) ==
    LET Keep(record) ==
            /\ ~violates_diet(record, profile.dietary_restrictions)
            /\ ~violates_allergies(record, profile.allergies)
    IN  SelectSeq(records, Keep)

\* _fallback_candidates without the diet and allergy filter
fallback_candidates_unfiltered(shuffled, profile, needed) ==
    IF needed <= 0 THEN shuffled
    ELSE SubSeq(shuffled, 1, Min(needed, Len(shuffled)))

\* _fallback_candidates: the filtered library, shuffled, cut to `needed`
fallback_candidates(shuffled, profile, needed) ==
    LET filtered == filter_by_preferences(shuffled, profile)
    IN  IF needed <= 0 THEN filtered
        ELSE SubSeq(filtered, 1, Min(needed, Len(filtered)))

\* _build_candidate_pool
build_candidate_pool(profile, order, shuffle) ==
    LET filtered == filter_by_preferences(InOrder(order), profile)
    IN  IF Len(filtered) < MIN_CANDIDATE_POOL
        THEN filtered \o fallback_candidates(InOrder(shuffle), profile,
                             MIN_CANDIDATE_POOL - Len(filtered))
        ELSE filtered

SlotCount == DAYS * Len(MEAL_TYPES)

\* slot.calorie_target = max(250, int(calorie_target * ratio))
slot_calorie_target(profile, meal) ==
    LET calorie_target == IF Truthy(profile.calorie_target)
                          THEN profile.calorie_target[1]
                          ELSE DEFAULT_CALORIE_TARGET
        share == (calorie_target * MEAL_SPLITS[meal]) \div 100
    IN  IF share > 250 THEN share ELSE 250

\* _pick_recipe; scores are compared multiplied by the number of slots so
\* that per_meal_budget = budget_per_week / 21 stays an integer
pick_recipe(pool, meal, profile, used_recent, remaining_budget, choice) ==
    LET budget == profile.budget_per_week
        Eligible(i) ==
            /\ ~ /\ Truthy(profile.cooking_time_max)
                 /\ pool[i].prep_time_minutes
                        > profile.cooking_time_max[1]
            /\ ~ /\ Truthy(budget)
                 /\ pool[i].estimated_cost * SlotCount * 10
                        > budget[1] * 14
        Score(i) ==
            SlotCount *
              (Abs(pool[i].calories - slot_calorie_target(profile, meal))
               + (IF pool[i].recipe_id \in Range(used_recent)
                  THEN 200 ELSE 0))
            + (IF remaining_budget # Absent /\ Truthy(budget)
               THEN LET deficit ==
                          SlotCount * (remaining_budget[1]
                             - pool[i].estimated_cost
                                  * profile.people_count)
                          + budget[1]
                    IN  IF deficit < 0 THEN 10 * (0 - deficit) ELSE 0
               ELSE 0)
        eligible == { i \in DOMAIN pool : Eligible(i) }
    IN  IF eligible = {} THEN pool[choice]
        ELSE pool[CHOOSE i \in eligible :
                          \A j \in eligible :
                              \/ Score(i) < Score(j)
                              \/ Score(i) = Score(j) /\ i <= j]

\* the loop of build_plan from slot k on: the recipes assigned
RECURSIVE assign_slots(_, _, _, _, _, _)
assign_slots(pool, profile, k, used_recent, remaining_budget, seed) ==
    IF k > SlotCount THEN <<>>
    ELSE LET meal == MEAL_TYPES[((k - 1) % Len(MEAL_TYPES)) + 1]
             After(recipe) ==
                LET recent == Append(used_recent, recipe.recipe_id)
                IN  <<recipe>> \o
                    assign_slots(pool, profile, k + 1,
                                 IF Len(recent) > 5 THEN Tail(recent)
                                 ELSE recent,
                                 IF remaining_budget = Absent THEN Absent
                                 ELSE Some(remaining_budget[1]
                                           - recipe.estimated_cost
                                               * profile.people_count),
                                 seed)
         IN  CHOOSE recipes \in
                { After(recipe) :
                    recipe \in {pick_recipe(pool, meal, profile, used_recent,
                                            remaining_budget,
                                            ((seed * k) % Len(pool)) + 1)} } :
                TRUE

\* the GeneratedPlan of the recipes assigned to the slots
GeneratedPlan(recipes, servings) ==
    [assignments |->
        [k \in 1..SlotCount |->
            StoredItem((k - 1) \div Len(MEAL_TYPES),
                       MEAL_TYPES[((k - 1) % Len(MEAL_TYPES)) + 1],
                       recipes[k].recipe_id, servings)],
     total_calories |->
        SumOver(1..SlotCount,
                [k \in 1..SlotCount |-> recipes[k].calories * servings]),
     total_cost |->
        SumOver(1..SlotCount,
                [k \in 1..SlotCount |-> recipes[k].estimated_cost * servings])]

\* build_plan: Absent stands for the ValueError of an empty pool
build_plan(profile, order, shuffle, seed) ==
    LET candidate_pool == build_candidate_pool(profile, order, shuffle)
    IN  IF candidate_pool = <<>> THEN Absent
        ELSE CHOOSE plan \in
                { Some(GeneratedPlan(recipes, profile.people_count)) :
                    recipes \in {assign_slots(candidate_pool, profile, 1, <<>>,
                                              profile.budget_per_week, seed)} } :
                TRUE

----------------------------------------------------------------------------
(* PlanSpec: the meal plan of one user and the calls on it.  Every call    *)
(* runs in a Session of its own (autoflush off) and is one transaction.    *)

\* the owner's stored preferences: none, or two people with an allergy
PlanPreferences ==
    { NoOverride,
      Preferences(Absent, Some(<< <<"P">> >>), Some(2000), Absent, Absent,
                  Some(2)) }

OverrideOf(field, value) == Some([NoOverride EXCEPT ![field] = Some(value)])

\* no override; vegan; an allergen every recipe holds (empty pool); a prep
\* limit no recipe meets (random choice); a weekly budget
PlanOverrides ==
    { Absent,
      OverrideOf("dietary_restrictions", <<"vegan">>),
      OverrideOf("allergies", << <<"x">> >>),
      OverrideOf("cooking_time_max", 10),
      OverrideOf("budget_per_week", 84) }

\* the overrides of regenerate and validate requests
LaterOverrides ==
    { Absent, OverrideOf("dietary_restrictions", <<"vegan">>) }

SwapItemIds == {1, 99}

SwapRecipeIds == {"r1", "r4", "zz"}

\* day_of_week of a regenerate request: omitted, a day, out of range
RegenerateDays == {Absent, Some(1), Some(7)}

PlanInit ==
    /\ IdleInit("plans")
    /\ procs = <<PlanCall("none", PlanOwner, <<>>, Absent)>>
    /\ \E preferences \in PlanPreferences :
          db = PlanDb(preferences, Absent, <<>>)

\* the call failed before any write
PlanError(r, op, user, args, message) ==
    /\ procs' = [procs EXCEPT ![r] = PlanCall(op, user, args, Some(message))]
    /\ db' = [db EXCEPT !.plan_ops = @ + 1]

PlanReturn(r, op, user, args) ==
    procs' = [procs EXCEPT ![r] = PlanCall(op, user, args, Absent)]

\* _recalculate_plan_totals over the items the Session holds
recalculate_plan_totals(plan, items) ==
    [plan EXCEPT
        !.total_calories =
            SumOver(DOMAIN items, [i \in DOMAIN items |-> items[i].calories]),
        !.total_estimated_cost =
            SumOver(DOMAIN items,
                    [i \in DOMAIN items |-> items[i].estimated_cost])]

\* generate_meal_plan: the plan row is flushed, the items are only added to
\* the Session, so the lazy load of plan.items in _refresh_plan_state finds
\* no row; the commit then writes the items
generate_meal_plan(r, Overrides) ==
    /\ procs[r].phase = "idle"
    /\ db.plan = Absent
    /\ db.plan_ops < MaxPlanOps
    /\ \E override \in Overrides, draw \in PoolDraws :
        \E profile \in {build_preference_profile(db.preferences, override)} :
         \E plan \in {build_plan(profile, draw.order, draw.shuffle, draw.seed)} :
           LET args == [override |-> override]
           IN  IF plan = Absent
               THEN PlanError(r, "generate", PlanOwner, args,
                       "Unable to find recipes that satisfy the given preferences")
               ELSE /\ PlanReturn(r, "generate", PlanOwner, args)
                    /\ db' = [db EXCEPT
                          !.plan = Some(refresh_plan_state(
                                      MealPlanRow(PlanOwner,
                                                  plan[1].total_calories,
                                                  plan[1].total_cost),
                                      <<>>, profile, TRUE)),
                          !.plan_items = plan[1].assignments,
                          !.next_item_id = SlotCount + 1,
                          !.plan_ops = @ + 1]
    /\ PlanUnchanged

\* swap_meal_plan_item
swap_meal_plan_item(r, Callers, ItemIds, RecipeIds) ==
    /\ procs[r].phase = "idle"
    /\ db.plan_ops < MaxPlanOps
    /\ \E user \in Callers, item_id \in ItemIds, new_recipe_id \in RecipeIds :
         LET args == [item_id |-> item_id, new_recipe_id |-> new_recipe_id]
             recipe == recipe_id_lookup(new_recipe_id)
         IN  IF db.plan = Absent
             THEN PlanError(r, "swap", user, args, NoPlanFound)
             ELSE IF db.plan[1].user_id # user
             THEN PlanError(r, "swap", user, args,
                            "Not authorized to modify this meal plan")
             ELSE IF item_id \notin DOMAIN db.plan_items
             THEN PlanError(r, "swap", user, args, "Meal plan item not found")
             ELSE IF recipe = Absent
             THEN PlanError(r, "swap", user, args, "Recipe not found in library")
             ELSE LET target_item == db.plan_items[item_id]
                      items == [db.plan_items EXCEPT ![item_id] =
                                  StoredItem(target_item.day_of_week,
                                             target_item.meal_type,
                                             new_recipe_id,
                                             target_item.servings)]
                      profile == build_preference_profile(db.preferences, Absent)
                  IN  /\ PlanReturn(r, "swap", user, args)
                      /\ db' = [db EXCEPT
                            !.plan = Some(refresh_plan_state(
                                        recalculate_plan_totals(db.plan[1], items),
                                        items, profile, TRUE)),
                            !.plan_items = items,
                            !.plan_ops = @ + 1]
    /\ PlanUnchanged

\* the bulk DELETE of regenerate without its day filter
DeletedIds_all(items, day) == DOMAIN items

\* the rows the bulk DELETE of regenerate removes
DeletedIds(items, day) ==
    IF day = Absent THEN DOMAIN items
    ELSE { i \in DOMAIN items : items[i].day_of_week = day[1] }

\* the rows after the DELETE and the INSERT of the replacements
RegeneratedItems(items, assignments, day, next_id) ==
    LET K == { k \in DOMAIN assignments :
                 day = Absent \/ assignments[k].day_of_week = day[1] }
        IdOf(k) == next_id + Cardinality({ j \in K : j < k })
        kept == DOMAIN items \ DeletedIds(items, day)
    IN  [i \in kept \cup { IdOf(k) : k \in K } |->
            IF i \in kept THEN items[i]
            ELSE assignments[CHOOSE k \in K : IdOf(k) = i]]

\* regenerate_meal_plan_assignments: the bulk DELETE and the INSERTs do not
\* touch the item collection the Session loaded, and the second
\* get_meal_plan does not reload it, so totals, validation and summary are
\* computed from the items as they were before the call
regenerate_meal_plan_assignments(r, Callers, DaySet, Overrides) ==
    /\ procs[r].phase = "idle"
    /\ db.plan_ops < MaxPlanOps
    /\ \E user \in Callers, day \in DaySet, override \in Overrides :
         LET args == [day |-> day, override |-> override]
             loaded == db.plan_items
         IN  IF db.plan = Absent
             THEN PlanError(r, "regenerate", user, args, NoPlanFound)
             ELSE IF db.plan[1].user_id # user
             THEN PlanError(r, "regenerate", user, args,
                            "Not authorized to modify this meal plan")
             ELSE IF day # Absent /\ (day[1] < 0 \/ day[1] > 6)
             THEN PlanError(r, "regenerate", user, args,
                            "day_of_week must be between 0 and 6")
             ELSE
               \E draw \in PoolDraws :
                \E profile \in {build_preference_profile(db.preferences,
                                                         override)} :
                 \E new_plan \in {build_plan(profile, draw.order, draw.shuffle,
                                             draw.seed)} :
                   IF new_plan = Absent
                   THEN PlanError(r, "regenerate", user, args,
                           "Unable to find recipes that satisfy the given preferences")
                   ELSE \E items \in {RegeneratedItems(db.plan_items,
                                         new_plan[1].assignments, day,
                                         db.next_item_id)} :
                          /\ PlanReturn(r, "regenerate", user, args)
                          /\ db' = [db EXCEPT
                                !.plan = Some(refresh_plan_state(
                                            recalculate_plan_totals(db.plan[1],
                                                                    loaded),
                                            loaded, profile, TRUE)),
                                !.plan_items = items,
                                !.next_item_id =
                                    @ + Cardinality(DOMAIN items
                                                      \ DOMAIN db.plan_items),
                                !.plan_ops = @ + 1]
    /\ PlanUnchanged

\* the totals summarize_meal_plan returns
summarize_response(plan, items, refresh) ==
    IF refresh \/ plan.summary_snapshot = Absent
    THEN build_summary_payload(plan, items)
    ELSE plan.summary_snapshot[1]

\* summarize_meal_plan
summarize_meal_plan(r, Callers) ==
    /\ procs[r].phase = "idle"
    /\ db.plan_ops < MaxPlanOps
    /\ \E user \in Callers, refresh \in BOOLEAN :
         IF db.plan = Absent
         THEN PlanError(r, "summarize", user, [refresh |-> refresh], NoPlanFound)
         ELSE IF db.plan[1].user_id # user
         THEN PlanError(r, "summarize", user, [refresh |-> refresh],
                        "Not authorized to view this meal plan")
         ELSE LET summary == summarize_response(db.plan[1], db.plan_items,
                                                 refresh)
              IN  /\ PlanReturn(r, "summarize", user,
                                [refresh |-> refresh, response |-> summary])
                  /\ db' = [db EXCEPT
                        !.plan = Some([db.plan[1] EXCEPT
                                         !.summary_snapshot = Some(summary)]),
                        !.plan_ops = @ + 1]
    /\ PlanUnchanged

PlanNext ==
    \/ generate_meal_plan(1, PlanOverrides)
    \/ swap_meal_plan_item(1, {PlanOwner}, SwapItemIds, SwapRecipeIds)
    \/ regenerate_meal_plan_assignments(1, {PlanOwner}, RegenerateDays,
                                        LaterOverrides)
    \/ validate_meal_plan(1, {PlanOwner}, LaterOverrides)
    \/ summarize_meal_plan(1, {PlanOwner})

PlanSpec == PlanInit /\ [][PlanNext]_vars

\* the step is a successful swap_meal_plan_item call
SwapStep ==
    /\ db'.plan_ops = db.plan_ops + 1
    /\ procs'[1].op = "swap"
    /\ procs'[1].error = Absent

\* the new recipe has the per-serving nutrition and cost of the old one
SameNutritionSwap ==
    LET item == db.plan_items[procs'[1].args.item_id]
        recipe == recipe_id_lookup(procs'[1].args.new_recipe_id)[1]
    IN  /\ item.calories = recipe.calories
        /\ item.estimated_cost = recipe.estimated_cost * item.servings

\* C26 as stated: a swap for a recipe with the same per-serving nutrition
\* and cost leaves the stored totals and the is_valid verdict unchanged.
C26_Original ==
    [][(SwapStep /\ SameNutritionSwap) =>
          /\ db'.plan[1].total_calories = db.plan[1].total_calories
          /\ db'.plan[1].total_estimated_cost = db.plan[1].total_estimated_cost
          /\ db'.plan[1].is_valid = db.plan[1].is_valid]_vars

\* the last call built a plan and stored its assignments
BuiltPlan ==
    /\ procs[1].op \in {"generate", "regenerate"}
    /\ procs[1].error = Absent

\* the items the last build_plan call assigned
AssignedItems ==
    IF procs[1].op = "generate" \/ procs[1].args.day = Absent
    THEN DOMAIN db.plan_items
    ELSE { i \in DOMAIN db.plan_items :
             db.plan_items[i].day_of_week = procs[1].args.day[1] }

\* C27: no recipe assigned by build_plan violates the dietary restrictions
\* or the allergies of the profile the plan was built for, and a freshly
\* generated plan carries no dietary_restriction_violation or
\* allergy_violation issue.
C27_AssignedRecipesAreSafe ==
    BuiltPlan =>
        LET profile == build_preference_profile(db.preferences,
                                                procs[1].args.override)
        IN  /\ \A i \in AssignedItems :
                 LET record == recipe_id_lookup(db.plan_items[i].recipe_id)
                 IN  /\ record # Absent
                     /\ ~violates_diet(record[1], profile.dietary_restrictions)
                     /\ ~violates_allergies(record[1], profile.allergies)
            /\ procs[1].op = "generate" =>
                 db.plan[1].validation_issues
                    \cap {"dietary_restriction_violation", "allergy_violation"}
                   = {}

\* a plan built by random choice (no recipe meets the prep limit) for a
\* profile with an allergy
C27_Witness ==
    /\ BuiltPlan
    /\ procs[1].op = "generate"
    /\ procs[1].args.override = OverrideOf("cooking_time_max", 10)
    /\ db.preferences.allergies # Absent
    /\ DOMAIN db.plan_items # {}

\* the step is a successful regenerate call for one day
RegenerateDayStep ==
    /\ db'.plan_ops = db.plan_ops + 1
    /\ procs'[1].op = "regenerate"
    /\ procs'[1].error = Absent
    /\ procs'[1].args.day # Absent

OnePerSlot(items) ==
    \A day \in 0..(DAYS - 1), m \in DOMAIN MEAL_TYPES :
        Cardinality({ i \in DOMAIN items :
                        /\ items[i].day_of_week = day
                        /\ items[i].meal_type = MEAL_TYPES[m] }) = 1

\* C29: regenerating day d removes the rows of day d, adds rows of day d
\* only, leaves every other row as it was, and the plan still has one item
\* for each of the 7 days x 3 meal types.
C29_RegenerateDayFrame ==
    [][RegenerateDayStep =>
          LET d == procs'[1].args.day[1]
          IN  /\ \A i \in DOMAIN db.plan_items :
                    IF db.plan_items[i].day_of_week = d
                    THEN i \notin DOMAIN db'.plan_items
                    ELSE /\ i \in DOMAIN db'.plan_items
                         /\ db'.plan_items[i] = db.plan_items[i]
              /\ \A i \in DOMAIN db'.plan_items \ DOMAIN db.plan_items :
                    db'.plan_items[i].day_of_week = d
              /\ OnePerSlot(db'.plan_items)]_vars

\* day 1 was regenerated: the plan holds new rows and rows of the first plan
C29_Witness ==
    /\ procs[1].op = "regenerate"
    /\ procs[1].error = Absent
    /\ procs[1].args.day = Some(1)
    /\ \E i \in DOMAIN db.plan_items : i > SlotCount
    /\ \E i \in DOMAIN db.plan_items : i <= SlotCount

\* C30 as stated: summarize_meal_plan with refresh=false returns the totals
\* and per-day totals that refresh=true returns.
C30_Original ==
    db.plan # Absent =>
        LET cached == summarize_response(db.plan[1], db.plan_items, FALSE)
            fresh == summarize_response(db.plan[1], db.plan_items, TRUE)
        IN  /\ cached.total = fresh.total
            /\ cached.daily = fresh.daily

----------------------------------------------------------------------------
(* OwnerSpec: the plan of one user, the shopping list generated from it,   *)
(* and calls on both by the owner and by another user.                     *)

\* calls on the list and the plan in one behaviour
MaxOwnerCalls == 3

OwnerInit ==
    /\ IdleInit("owner")
    /\ procs = << IdleRequest(PlanOwner, Absent),
                  PlanCall("none", PlanOwner, <<>>, Absent) >>
    /\ db = [preferences |-> NoOverride, plan |-> Absent, plan_items |-> <<>>,
             next_item_id |-> 1, plan_ops |-> 0,
             shopping_list |-> Absent, items |-> <<>>, next_id |-> 1,
             ops |-> 0]

CallsLeft == db.ops + db.plan_ops < MaxOwnerCalls

\* a list is generated from the stored plan
OwnerGenerateList == db.plan # Absent /\ generate_shopping_list(1)

OwnerLoad ==
    CallsLeft /\ LoadRequestFrom(1, ItemOps, Users, {1}, {Some(Some(TRUE))})

OwnerGeneratePlan == CallsLeft /\ generate_meal_plan(2, {Absent})

OwnerSwap == CallsLeft /\ swap_meal_plan_item(2, Users, {1}, {"r4"})

OwnerRegenerate ==
    CallsLeft /\ regenerate_meal_plan_assignments(2, Users, {Some(1)}, {Absent})

OwnerValidate == CallsLeft /\ validate_meal_plan(2, Users, {Absent})

OwnerSummarize == CallsLeft /\ summarize_meal_plan(2, Users)

OwnerNext ==
    \/ CommitRequest(1)
    \/ OwnerGenerateList
    \/ OwnerLoad
    \/ OwnerGeneratePlan
    \/ OwnerSwap
    \/ OwnerRegenerate
    \/ OwnerValidate
    \/ OwnerSummarize

OwnerSpec == OwnerInit /\ [][OwnerNext]_vars

\* the plan, the list and their items
OwnedRows(d) == <<d.plan, d.plan_items, d.shopping_list, d.items>>

\* the step is a call of request r by a user who is not the owner
CallByOther(r) ==
    /\ procs'[r].user_id # PlanOwner
    /\ \/ procs'[r] # procs[r]
       \/ r = 1 /\ db'.ops # db.ops
       \/ r = 2 /\ db'.plan_ops # db.plan_ops

\* C28: every shopping-list or meal-plan call made with a user_id other
\* than the owner's ends with an error and leaves the plan, the list and
\* all their items as they were.
C28_NonOwnerCallsFail ==
    [][\A r \in DOMAIN procs :
          CallByOther(r) =>
             /\ procs'[r].phase = "idle"
             /\ procs'[r].error # Absent
             /\ OwnedRows(db') = OwnedRows(db)]_vars

\* a plan and a list exist and another user's calls on both were refused
C28_Witness ==
    /\ db.plan # Absent
    /\ db.shopping_list # Absent
    /\ procs[1].user_id # PlanOwner
    /\ procs[1].error = Some(NoListError)
    /\ procs[2].user_id # PlanOwner
    /\ procs[2].op = "swap"
    /\ procs[2].error = Some("Not authorized to modify this meal plan")

====
